---------------------------- MODULE Spec2Model ----------------------------
(***************************************************************************)
(* Schwaemm256-256 (git_veil, native/schwaemm_nif): the Sparkle            *)
(* permutation, the split-array AEAD construction schwaemm_v2 and the NIF  *)
(* entry points of lib.rs.                                                 *)
(*                                                                         *)
(* A u32 is held as the pair <<lo, hi>> of its two 16-bit halves, so that  *)
(* every intermediate value stays inside the model checker's integers and  *)
(* wrapping addition is explicit.  A byte is a number in 0..255 and a byte *)
(* string is a sequence of bytes.                                          *)
(***************************************************************************)
EXTENDS Integers, Sequences, FiniteSets, TLC

-----------------------------------------------------------------------------
(* u32 and u8 arithmetic                                                   *)

Half == 2 ^ 16

Zero32 == <<0, 0>>

\* bitwise exclusive or of two naturals, bit by bit
RECURSIVE XorN(_, _)
XorN(a, b) ==
    IF a = 0 THEN b
    ELSE IF b = 0 THEN a
    ELSE ((a + b) % 2) + 2 * XorN(a \div 2, b \div 2)

\* bitwise or of two naturals, bit by bit
RECURSIVE OrN(_, _)
OrN(a, b) ==
    IF a = 0 THEN b
    ELSE IF b = 0 THEN a
    ELSE (IF a % 2 = 1 \/ b % 2 = 1 THEN 1 ELSE 0) + 2 * OrN(a \div 2, b \div 2)

\* a sequence with every element computed (Vec: collect())
Collect(f) == SubSeq(f, 1, Len(f))

\* u8 ^ u8 and u8 | u8, tabulated once: row a + 1, column b + 1
XorTable == Collect([a \in 1..256 |-> Collect([b \in 1..256 |-> XorN(a - 1, b - 1)])])

OrTable == Collect([a \in 1..256 |-> Collect([b \in 1..256 |-> OrN(a - 1, b - 1)])])

Xor8(a, b) == XorTable[a + 1][b + 1]

Or8(a, b) == OrTable[a + 1][b + 1]

\* the halves of a u32, and the u32 values
U16 == 0..(Half - 1)

U32Values == U16 \X U16

\* u16 ^ u16 from the byte table
Xor16 ==
    [a \in U16, b \in U16 |->
        XorTable[(a % 256) + 1][(b % 256) + 1]
        + 256 * XorTable[(a \div 256) + 1][(b \div 256) + 1]]

\* u32 ^ u32
Xor == [v \in U32Values, w \in U32Values |-> <<Xor16[v[1], w[1]], Xor16[v[2], w[2]]>>]

\* u32::wrapping_add
WrappingAdd ==
    [v \in U32Values, w \in U32Values |->
        <<(v[1] + w[1]) % Half, (v[2] + w[2] + ((v[1] + w[1]) \div Half)) % Half>>]

\* u32::rotate_right(r), 0 <= r < 32
RotateRight ==
    [w \in U32Values, r \in 0..31 |->
        LET s == r % 16
            a == IF r >= 16 THEN w[2] ELSE w[1]
            b == IF r >= 16 THEN w[1] ELSE w[2]
            p == 2 ^ s
            q == 2 ^ (16 - s)
        IN  <<(a \div p) + (b % p) * q, (b \div p) + (a % p) * q>>]

\* x << 16 on a u32: the low half moves up, the high half is shifted out
Shl16(w) == <<0, w[1]>>

\* the u32 with numeric value hi * 2^16 + lo written as a literal pair
U32(hi, lo) == <<lo, hi>>

\* `n as u32` for a small non-negative n
AsU32(n) == <<n % Half, (n \div Half) % Half>>

-----------------------------------------------------------------------------
(* sparkle.rs                                                              *)

\* const RCON: [u32; 16], 0-based
RCON ==
    << U32(47073, 20834), U32(49009, 22656), U32(14516, 55894), U32(12878, 30520),
       U32(47889, 34283), U32(20348, 31575), U32(53183, 41416), U32(49843, 10557),
       U32(47073, 20834), U32(49009, 22656), U32(14516, 55894), U32(12878, 30520),
       U32(47889, 34283), U32(20348, 31575), U32(53183, 41416), U32(49843, 10557) >>

\* a[i] of a 0-based Rust array or slice
At(a, i) == a[i + 1]

\* a[i] = v
Put(a, i, v) == [a EXCEPT ![i + 1] = v]

\* alzette with the two rotation amounts of round 1 exchanged
AlzetteRound1Exchanged(x, y, c) ==
    LET a1 == WrappingAdd[x, RotateRight[y, 24]]
        y1 == Xor[y, RotateRight[a1, 31]]
        x1 == Xor[a1, c]
        a2 == WrappingAdd[x1, RotateRight[y1, 17]]
        y2 == Xor[y1, RotateRight[a2, 17]]
        x2 == Xor[a2, c]
        a3 == WrappingAdd[x2, y2]
        y3 == Xor[y2, RotateRight[a3, 31]]
        x3 == Xor[a3, c]
        a4 == WrappingAdd[x3, RotateRight[y3, 24]]
        y4 == Xor[y3, RotateRight[a4, 16]]
        x4 == Xor[a4, c]
    IN  <<x4, y4>>

\* fn alzette(x, y, c) -> (x, y)
alzette(x, y, c) ==
    LET a1 == WrappingAdd[x, RotateRight[y, 31]]
        y1 == Xor[y, RotateRight[a1, 24]]
        x1 == Xor[a1, c]
        a2 == WrappingAdd[x1, RotateRight[y1, 17]]
        y2 == Xor[y1, RotateRight[a2, 17]]
        x2 == Xor[a2, c]
        a3 == WrappingAdd[x2, y2]
        y3 == Xor[y2, RotateRight[a3, 31]]
        x3 == Xor[a3, c]
        a4 == WrappingAdd[x3, RotateRight[y3, 24]]
        y4 == Xor[y3, RotateRight[a4, 16]]
        x4 == Xor[a4, c]
    IN  <<x4, y4>>

\* a slice of u32
Words == Seq(U32Values)

\* fn ell(x)
ell == [x \in U32Values |-> RotateRight[Xor[x, Shl16(x)], 16]]

\* for i in 0..nb { x[i] = state[2 * i] }   (off = 0)   /   y[i] = state[2 * i + 1]   (off = 1)
SplitLane[state \in Words, off \in 0..1, nb \in Nat] ==
    Collect([k \in 1..nb |-> At(state, 2 * (k - 1) + off)])

\* tmp = 0; for i in 0..b { tmp ^= a[i] }
FoldXor[a \in Words, tmp \in U32Values, i \in Nat, b \in Nat] ==
    IF i >= b THEN tmp ELSE FoldXor[a, Xor[tmp, At(a, i)], i + 1, b]

\* for i in 0..b { a[i + b] ^= tmp ^ a[i] }
FeistelAdd[a \in Words, tmp \in U32Values, i \in Nat, b \in Nat] ==
    IF i >= b THEN a
    ELSE FeistelAdd[Put(a, i + b, Xor[At(a, i + b), Xor[tmp, At(a, i)]]), tmp, i + 1, b]

\* for i in 0..b - 1 { a[i] = a[i + b + 1]; a[i + b + 1] = a[i + 1]; }
SwapLoop[a \in Words, i \in Nat, b \in Nat] ==
    IF i >= b - 1 THEN a
    ELSE SwapLoop[Put(Put(a, i, At(a, i + b + 1)), i + b + 1, At(a, i + 1)), i + 1, b]

\* let tmp = a[0]; <SwapLoop>; a[b - 1] = a[b]; a[b] = tmp;
BranchSwap[a \in Words, b \in Nat] ==
    Put(Put(SwapLoop[a, 0, b], b - 1, At(SwapLoop[a, 0, b], b)), b, At(a, 0))

\* for i in 0..nb { state[2 * i] = x[i]; state[2 * i + 1] = y[i]; }
Interleave[x \in Words, y \in Words, nb \in Nat] ==
    Collect([k \in 1..(2 * nb) |->
        IF (k - 1) % 2 = 0 THEN At(x, (k - 1) \div 2) ELSE At(y, (k - 1) \div 2)])

\* a faulty layer: the second Feistel function reuses the x half instead of y
LinearLayerOneTmp(state) ==
    LET nb == Len(state) \div 2
        b  == nb \div 2
        x  == SplitLane[state, 0, nb]
        y  == SplitLane[state, 1, nb]
        y1 == FeistelAdd[y, ell[FoldXor[x, Zero32, 0, b]], 0, b]
        x1 == FeistelAdd[x, ell[FoldXor[x, Zero32, 0, b]], 0, b]
    IN  Interleave[BranchSwap[x1, b], BranchSwap[y1, b], nb]

\* fn linear_layer(state: &mut [u32])
linear_layer(state) ==
    LET nb == Len(state) \div 2
        b  == nb \div 2
        x  == SplitLane[state, 0, nb]
        y  == SplitLane[state, 1, nb]
        y1 == FeistelAdd[y, ell[FoldXor[x, Zero32, 0, b]], 0, b]
        x1 == FeistelAdd[x, ell[FoldXor[y1, Zero32, 0, b]], 0, b]
    IN  Interleave[BranchSwap[x1, b], BranchSwap[y1, b], nb]

\* for i in 0..nb { (state[2i], state[2i+1]) = alzette(state[2i], state[2i+1], RCON[i % 8]) }
AlzetteLayer[state \in Words, nb \in Nat] ==
    LET branch == Collect([k \in 1..nb |->
                      alzette(At(state, 2 * (k - 1)), At(state, 2 * (k - 1) + 1),
                              At(RCON, (k - 1) % 8))])
    IN  Collect([k \in 1..(2 * nb) |-> branch[((k - 1) \div 2) + 1][((k - 1) % 2) + 1]])

\* a faulty step: the step counter is not added to y[0] and y[1]
SparkleStepNoCounter(state, step) ==
    linear_layer(AlzetteLayer[state, Len(state) \div 2])

\* a faulty step: the round constant and the step index go to x[0] and x[1]
SparkleStepCounterInX(state, step) ==
    LET s1 == Put(state, 0, Xor[At(state, 0), At(RCON, step % 8)])
        s2 == Put(s1, 2, Xor[At(s1, 2), AsU32(step)])
    IN  linear_layer(AlzetteLayer[s2, Len(state) \div 2])

\* the body of `for step in 0..steps`
SparkleStep(state, step) ==
    LET s1 == Put(state, 1, Xor[At(state, 1), At(RCON, step % 8)])
        s2 == Put(s1, 3, Xor[At(s1, 3), AsU32(step)])
    IN  linear_layer(AlzetteLayer[s2, Len(state) \div 2])

-----------------------------------------------------------------------------
(* schwaemm_v2.rs: constants, byte/word conversion, the rho functions      *)

RATE_WORDS == 8

RATE_BRANS == 4

CAP_BRANS == 4

STATE_WORDS == 16

RATE_BYTES == 32

TAG_BYTES == 32

KEY_BYTES == 32

NONCE_BYTES == 32

SPARKLE_STEPS_SLIM == 8

SPARKLE_STEPS_BIG == 12

\* ((k ^ 16) as u32) << 24 for k = 0, 1, 2, 3
CONST_A0 == U32(4096, 0)

CONST_A1 == U32(4352, 0)

CONST_M2 == U32(4608, 0)

CONST_M3 == U32(4864, 0)

\* a byte slice
Bytes == Seq(0..255)

\* struct SparkleState { x: [u32; 8], y: [u32; 8] }
SparkleState == [x : Words, y : Words]

\* a[lo..hi] of a 0-based slice
Slice(a, lo, hi) == SubSeq(a, lo + 1, hi)

\* [0u32; n]
ZeroWords(n) == [i \in 1..n |-> Zero32]

\* [0u8; n] / vec![0u8; n]
ZeroBytes(n) == [i \in 1..n |-> 0]

\* u32::from_le_bytes
FromLeBytes(b0, b1, b2, b3) == <<b0 + 256 * b1, b2 + 256 * b3>>

\* u32::to_le_bytes()[j]
ToLeByte(w, j) ==
    IF j = 0 THEN w[1] % 256
    ELSE IF j = 1 THEN w[1] \div 256
    ELSE IF j = 2 THEN w[2] % 256
    ELSE w[2] \div 256

\* buf[..chunk.len()].copy_from_slice(chunk) on a zeroed 4-byte buf: byte k of the input or 0
ChunkByte(bytes, k) == IF k < Len(bytes) THEN At(bytes, k) ELSE 0

\* fn bytes_to_words_le(bytes: &[u8]) -> Vec<u32>
bytes_to_words_le[bytes \in Bytes] ==
    Collect([i \in 1..((Len(bytes) + 3) \div 4) |->
        FromLeBytes(ChunkByte(bytes, 4 * (i - 1)), ChunkByte(bytes, 4 * (i - 1) + 1),
                    ChunkByte(bytes, 4 * (i - 1) + 2), ChunkByte(bytes, 4 * (i - 1) + 3))])

\* fn words_to_bytes_le(words: &[u32], bytes: &mut [u8]): the buffer after the call
words_to_bytes_le[words \in Words, bytes \in Bytes] ==
    Collect([k \in 1..Len(bytes) |->
        IF (k - 1) \div 4 < Len(words)
        THEN ToLeByte(At(words, (k - 1) \div 4), (k - 1) % 4)
        ELSE bytes[k]])

\* .try_into().unwrap_or([0u32; RATE_WORDS])
ToRateWords[v \in Words] == IF Len(v) = RATE_WORDS THEN v ELSE ZeroWords(RATE_WORDS)

\* inbuf_bytes: zeroed, input copied in, 0x80 after a partial block
PadBlock[input \in Bytes] ==
    Collect([k \in 1..RATE_BYTES |->
        IF k <= Len(input) THEN input[k]
        ELSE IF Len(input) < RATE_BYTES /\ k = Len(input) + 1 THEN 128
        ELSE 0])

\* for i in 0..b { tmp = x[i]; x[i] = x[i + b]; x[i + b] ^= tmp; (same for y) }
FeistelSwap[state \in SparkleState, i \in Nat, b \in Nat] ==
    IF i >= b THEN state
    ELSE LET x1 == Put(state.x, i, At(state.x, i + b))
             x2 == Put(x1, i + b, Xor[At(x1, i + b), At(state.x, i)])
             y1 == Put(state.y, i, At(state.y, i + b))
             y2 == Put(y1, i + b, Xor[At(y1, i + b), At(state.y, i)])
         IN  FeistelSwap[[x |-> x2, y |-> y2], i + 1, b]

\* for i in 0..RATE_BRANS { state.x[i] ^= buf[2 * i]; state.y[i] ^= buf[2 * i + 1]; }
XorIntoRate[state \in SparkleState, buf \in Words, i \in Nat] ==
    IF i >= RATE_BRANS THEN state
    ELSE XorIntoRate[[x |-> Put(state.x, i, Xor[At(state.x, i), At(buf, 2 * i)]),
                      y |-> Put(state.y, i, Xor[At(state.y, i), At(buf, 2 * i + 1)])],
                     buf, i + 1]

\* for i in 0..RATE_BRANS { state.x[i] ^= state.x[RATE_BRANS + (i % CAP_BRANS)]; (same for y) }
RateWhitening[state \in SparkleState, i \in Nat] ==
    IF i >= RATE_BRANS THEN state
    ELSE RateWhitening[
            [x |-> Put(state.x, i, Xor[At(state.x, i), At(state.x, RATE_BRANS + (i % CAP_BRANS))]),
             y |-> Put(state.y, i, Xor[At(state.y, i), At(state.y, RATE_BRANS + (i % CAP_BRANS))])],
            i + 1]

\* for i in 0..RATE_BRANS { outbuf[2 * i] = inbuf[2 * i] ^ state.x[i]; outbuf[2 * i + 1] = ... }
RhoOutbuf[state \in SparkleState, inbuf \in Words] ==
    Collect([k \in 1..RATE_WORDS |->
        IF (k - 1) % 2 = 0 THEN Xor[inbuf[k], At(state.x, (k - 1) \div 2)]
        ELSE Xor[inbuf[k], At(state.y, (k - 1) \div 2)]])

\* a faulty rho_whi_aut: the input block is not absorbed into the rate
RhoAutDroppingInput(state, input) ==
    RateWhitening[FeistelSwap[state, 0, RATE_BRANS \div 2], 0]

\* a faulty rho_whi_aut: the rate-whitening loop is missing
RhoAutWithoutWhitening(state, input) ==
    LET inbuf == ToRateWords[bytes_to_words_le[PadBlock[input]]]
    IN  XorIntoRate[FeistelSwap[state, 0, RATE_BRANS \div 2], inbuf, 0]

\* a faulty rho_whi_aut: the whitening runs the wrong way, capacity x[4] ^= rate x[0]
RhoAutWhiteningCapacity(state, input) ==
    LET inbuf == ToRateWords[bytes_to_words_le[PadBlock[input]]]
        s     == RateWhitening[XorIntoRate[FeistelSwap[state, 0, RATE_BRANS \div 2], inbuf, 0], 0]
    IN  [x |-> Put(s.x, RATE_BRANS, Xor[At(s.x, RATE_BRANS), At(s.x, 0)]), y |-> s.y]

\* fn rho_whi_aut(state: &mut SparkleState, input: &[u8]): the state after the call
rho_whi_aut(state, input) ==
    LET inbuf == ToRateWords[bytes_to_words_le[PadBlock[input]]]
    IN  RateWhitening[XorIntoRate[FeistelSwap[state, 0, RATE_BRANS \div 2], inbuf, 0], 0]

\* a faulty rho_whi_enc: the output is taken from the rate after the Feistel swap
RhoEncOutputAfterSwap(state, output, input) ==
    LET inbuf   == ToRateWords[bytes_to_words_le[PadBlock[input]]]
        swapped == FeistelSwap[state, 0, RATE_BRANS \div 2]
    IN  [state  |-> RateWhitening[XorIntoRate[swapped, inbuf, 0], 0],
         output |-> words_to_bytes_le[RhoOutbuf[swapped, inbuf], output]]

\* a faulty rho_whi_enc: the ciphertext words, not the plaintext's, are XORed into the rate
RhoEncAbsorbingCiphertext(state, output, input) ==
    LET inbuf  == ToRateWords[bytes_to_words_le[PadBlock[input]]]
        outbuf == RhoOutbuf[state, inbuf]
    IN  [state  |-> RateWhitening[
                        XorIntoRate[FeistelSwap[state, 0, RATE_BRANS \div 2], outbuf, 0], 0],
         output |-> words_to_bytes_le[outbuf, output]]

\* fn rho_whi_enc(state, output, input): the state and the output buffer after the call
rho_whi_enc(state, output, input) ==
    LET inbuf  == ToRateWords[bytes_to_words_le[PadBlock[input]]]
        outbuf == RhoOutbuf[state, inbuf]
    IN  [state  |-> RateWhitening[
                        XorIntoRate[FeistelSwap[state, 0, RATE_BRANS \div 2], inbuf, 0], 0],
         output |-> words_to_bytes_le[outbuf, output]]

\* outbuf_bytes[input.len()..].fill(0); outbuf_bytes[input.len()] = 0x80;
RepadPlain[outbuf \in Words, len \in Nat] ==
    Collect([k \in 1..(4 * RATE_WORDS) |->
        IF k <= len THEN ToLeByte(At(outbuf, (k - 1) \div 4), (k - 1) % 4)
        ELSE IF k = len + 1 THEN 128
        ELSE 0])

\* for i in 0..RATE_BRANS { state.x[i] ^= statebuf.x[i] ^ inbuf[2 * i]; (same for y) }
XorFullBlock[state \in SparkleState, statebuf \in SparkleState, inbuf \in Words, i \in Nat] ==
    IF i >= RATE_BRANS THEN state
    ELSE XorFullBlock[
            [x |-> Put(state.x, i, Xor[At(state.x, i), Xor[At(statebuf.x, i), At(inbuf, 2 * i)]]),
             y |-> Put(state.y, i, Xor[At(state.y, i), Xor[At(statebuf.y, i), At(inbuf, 2 * i + 1)]])],
            statebuf, inbuf, i + 1]

\* a faulty rho_whi_dec: the ciphertext block is absorbed instead of the plaintext
RhoDecAbsorbingCiphertext(state, output, input) ==
    LET inbuf  == ToRateWords[bytes_to_words_le[PadBlock[input]]]
        outbuf == RhoOutbuf[state, inbuf]
    IN  [state  |-> RateWhitening[
                        XorIntoRate[FeistelSwap[state, 0, RATE_BRANS \div 2], inbuf, 0], 0],
         output |-> words_to_bytes_le[outbuf, output]]

\* a faulty rho_whi_dec: a partial block's plaintext words are absorbed as they
\* are, without `fill(0)` and the 0x80 marker
RhoDecWithoutRepad(state, output, input) ==
    LET inbuf    == ToRateWords[bytes_to_words_le[PadBlock[input]]]
        statebuf == state
        outbuf   == RhoOutbuf[state, inbuf]
        swapped  == FeistelSwap[state, 0, RATE_BRANS \div 2]
        mixed    == IF Len(input) < RATE_BYTES
                    THEN XorIntoRate[swapped, outbuf, 0]
                    ELSE XorFullBlock[swapped, statebuf, inbuf, 0]
    IN  [state  |-> RateWhitening[mixed, 0],
         output |-> words_to_bytes_le[outbuf, output]]

\* fn rho_whi_dec(state, output, input): the state and the output buffer after the call
rho_whi_dec(state, output, input) ==
    LET inbuf    == ToRateWords[bytes_to_words_le[PadBlock[input]]]
        statebuf == state
        outbuf   == RhoOutbuf[state, inbuf]
        swapped  == FeistelSwap[state, 0, RATE_BRANS \div 2]
        mixed    == IF Len(input) < RATE_BYTES
                    THEN XorIntoRate[swapped,
                            ToRateWords[bytes_to_words_le[RepadPlain[outbuf, Len(input)]]], 0]
                    ELSE XorFullBlock[swapped, statebuf, inbuf, 0]
    IN  [state  |-> RateWhitening[mixed, 0],
         output |-> words_to_bytes_le[outbuf, output]]

\* fn state_to_flat(state: &SparkleState) -> [u32; STATE_WORDS]
state_to_flat(state) ==
    Collect([k \in 1..STATE_WORDS |->
        IF (k - 1) % 2 = 0 THEN At(state.x, (k - 1) \div 2) ELSE At(state.y, (k - 1) \div 2)])

\* fn flat_to_state(flat: &[u32; STATE_WORDS]) -> SparkleState
flat_to_state(flat) ==
    [x |-> Collect([i \in 1..8 |-> At(flat, 2 * (i - 1))]),
     y |-> Collect([i \in 1..8 |-> At(flat, 2 * (i - 1) + 1)])]

\* a faulty initialize: the key is loaded into the rate and the nonce into the capacity
LoadStateKeyInRate(key, nonce) ==
    LET nonce_words == bytes_to_words_le[nonce]
        key_words   == bytes_to_words_le[key]
    IN  [x |-> Collect([i \in 1..8 |-> IF i <= 4 THEN At(key_words, 2 * (i - 1))
                                       ELSE At(nonce_words, 2 * (i - 1 - RATE_BRANS))]),
         y |-> Collect([i \in 1..8 |-> IF i <= 4 THEN At(key_words, 2 * (i - 1) + 1)
                                       ELSE At(nonce_words, 2 * (i - 1 - RATE_BRANS) + 1)])]

\* initialize, before its call of sparkle_state: nonce in the rate, key in the capacity
LoadState(key, nonce) ==
    LET nonce_words == bytes_to_words_le[nonce]
        key_words   == bytes_to_words_le[key]
    IN  [x |-> Collect([i \in 1..8 |-> IF i <= 4 THEN At(nonce_words, 2 * (i - 1))
                                       ELSE At(key_words, 2 * (i - 1 - RATE_BRANS))]),
         y |-> Collect([i \in 1..8 |-> IF i <= 4 THEN At(nonce_words, 2 * (i - 1) + 1)
                                       ELSE At(key_words, 2 * (i - 1 - RATE_BRANS) + 1)])]

\* a faulty constant addition: the constant goes to the rate word x[0]
XorConstIntoRate(state, const_val) ==
    [x |-> Put(state.x, 0, Xor[At(state.x, 0), const_val]), y |-> state.y]

\* state.y[7] ^= const_val
XorConst(state, const_val) ==
    [x |-> state.x, y |-> Put(state.y, 7, Xor[At(state.y, 7), const_val])]

\* fn finalize(state: &mut SparkleState, key: &[u8; KEY_BYTES]): the state after the call
finalize(state, key) ==
    LET key_words == bytes_to_words_le[key]
    IN  [x |-> Collect([i \in 1..8 |-> IF i <= RATE_BRANS THEN state.x[i]
                                       ELSE Xor[state.x[i], At(key_words, 2 * (i - 1 - RATE_BRANS))]]),
         y |-> Collect([i \in 1..8 |-> IF i <= RATE_BRANS THEN state.y[i]
                                       ELSE Xor[state.y[i], At(key_words, 2 * (i - 1 - RATE_BRANS) + 1)]])]

\* tag_words: x[4], y[4], x[5], y[5], x[6], y[6], x[7], y[7]
TagWords(state) ==
    Collect([k \in 1..(2 * 4) |->
        IF (k - 1) % 2 = 0 THEN At(state.x, RATE_BRANS + (k - 1) \div 2)
        ELSE At(state.y, RATE_BRANS + (k - 1) \div 2)])

\* a faulty generate_tag: `state.x[i]` for `state.x[RATE_BRANS + i]`, the tag is the rate
GenerateTagFromRate(state) ==
    words_to_bytes_le[
        Collect([k \in 1..(2 * 4) |->
            IF (k - 1) % 2 = 0 THEN At(state.x, (k - 1) \div 2)
            ELSE At(state.y, (k - 1) \div 2)]),
        ZeroBytes(TAG_BYTES)]

\* fn generate_tag(state: &SparkleState) -> [u8; TAG_BYTES]
generate_tag(state) == words_to_bytes_le[TagWords(state), ZeroBytes(TAG_BYTES)]

-----------------------------------------------------------------------------
(* The calls the host makes: bounded argument sets                         *)

\* longest plaintext, in blocks of RATE_BYTES
MaxBlocks == 2

\* the bytes 00, 01, 02, ... (n of them)
AscBytes(n) == [i \in 1..n |-> (i - 1) % 256]

\* [b; n]
Fill(n, b) == [i \in 1..n |-> b]

\* the key and nonce of the known-answer tests, and those of test_encrypt_decrypt_roundtrip
KatKey == AscBytes(KEY_BYTES)

TestKey == Fill(KEY_BYTES, 66)

TestNonce == Fill(NONCE_BYTES, 19)

GoodKeyNonce == { <<KatKey, KatKey>>, <<TestKey, TestNonce>> }

\* a key or a nonce of the wrong length
BadKeyNonce ==
    { <<AscBytes(KEY_BYTES - 1), KatKey>>, <<KatKey, AscBytes(NONCE_BYTES + 1)>>,
      <<<<>>, KatKey>>, <<AscBytes(KEY_BYTES + 1), AscBytes(NONCE_BYTES - 1)>> }

\* plaintext lengths at the block boundaries: 0, 1, 31, 32, 33, 63, 64, ...
PtLens == {n \in 0..(RATE_BYTES * MaxBlocks) : n % RATE_BYTES \in {0, 1, RATE_BYTES - 1}}

\* associated-data lengths: none, partial, full, one full block and a partial one
AadLens == {0, 1, RATE_BYTES, RATE_BYTES + 1}

Plaintexts == {AscBytes(n) : n \in PtLens}

Aads == {AscBytes(n) : n \in AadLens}

\* where a single bit is flipped in a field of len bytes: <<byte, bit>>
FlipSites(len) == IF len = 0 THEN {} ELSE {<<0, 0>>, <<len - 1, 7>>}

Flip(f, site) == [field |-> f, op |-> "flip", at |-> site[1], bit |-> site[2]]

Truncate(f) == [field |-> f, op |-> "truncate", at |-> 0, bit |-> 0]

Extend(f) == [field |-> f, op |-> "extend", at |-> 0, bit |-> 0]

\* what is done to the arguments between encrypt and decrypt: nothing, one bit
\* flipped, or a fixed-size field of the wrong length (alone or with a wrong tag)
Tampers(args) ==
    {<<>>}
    \cup {<<Flip(f, site)>> : f \in {"key"}, site \in FlipSites(Len(args.key))}
    \cup {<<Flip(f, site)>> : f \in {"nonce"}, site \in FlipSites(Len(args.nonce))}
    \cup {<<Flip(f, site)>> : f \in {"input"}, site \in FlipSites(Len(args.input))}
    \cup {<<Flip(f, site)>> : f \in {"tag"}, site \in FlipSites(Len(args.tag))}
    \cup {<<Flip(f, site)>> : f \in {"aad"}, site \in FlipSites(Len(args.aad))}
    \cup {<<Truncate("key")>>, <<Extend("nonce")>>, <<Truncate("tag")>>, <<Extend("tag")>>,
          <<Truncate("key"), Flip("tag", <<0, 0>>)>>,
          <<Flip("tag", <<0, 0>>), Extend("nonce")>>}

Mutate(bytes, m) ==
    IF m.op = "flip" THEN [bytes EXCEPT ![m.at + 1] = Xor8(@, 2 ^ m.bit)]
    ELSE IF m.op = "truncate" THEN SubSeq(bytes, 1, Len(bytes) - 1)
    ELSE Append(bytes, 0)

RECURSIVE Tampered(_, _)
Tampered(args, t) ==
    IF t = <<>> THEN args
    ELSE Tampered([args EXCEPT ![Head(t).field] = Mutate(@, Head(t))], Tail(t))

-----------------------------------------------------------------------------
(* State                                                                   *)

VARIABLES
    pc,            \* where the running call is; "idle" between calls
    ncalls,        \* calls returned so far
    call,          \* the running (or last) call: op, key, nonce, input, tag, aad
    state,         \* its SparkleState: [x, y], eight u32 each
    flat,          \* sparkle_state's flat copy of the state while it is permuted
    step,          \* sparkle_generic's loop variable
    steps,         \* sparkle_generic's step count
    after,         \* where sparkle_state returns to
    offset,        \* the block loops' offset
    out,           \* the Vec process_plaintext / process_ciphertext builds
    computed_tag,  \* verify_tag's computed_tag
    diff,          \* verify_tag's accumulator
    idx,           \* verify_tag's loop variable
    result,        \* what the last call returned
    prev,          \* the first call and its result
    log,           \* the functions the running call has entered, in order
    tid,           \* 0 while calls run one after the other; else the thread that runs
    parked,        \* the locals of the thread that is not running
    alone          \* per thread, its call and the result the call gave when run alone

vars == <<pc, ncalls, call, state, flat, step, steps, after, offset, out,
          computed_tag, diff, idx, result, prev, log, tid, parked, alone>>

NoCall == [op |-> "none", key |-> <<>>, nonce |-> <<>>, input |-> <<>>, tag |-> <<>>, aad |-> <<>>]

NoResult == [kind |-> "none", output |-> <<>>, tag |-> <<>>]

NoPrev == [call |-> NoCall, result |-> NoResult]

\* the variables a call owns: the arguments, the locals of the functions it
\* is in, its return value (and, for the model, its position and its log)
Locals ==
    [pc |-> pc, call |-> call, state |-> state, flat |-> flat, step |-> step,
     steps |-> steps, after |-> after, offset |-> offset, out |-> out,
     computed_tag |-> computed_tag, diff |-> diff, idx |-> idx,
     result |-> result, log |-> log]

NoThread ==
    [tid |-> 0,
     locals |-> [pc |-> "idle", call |-> NoCall,
                 state |-> [x |-> ZeroWords(8), y |-> ZeroWords(8)],
                 flat |-> ZeroWords(STATE_WORDS), step |-> 0, steps |-> 0,
                 after |-> "idle", offset |-> 0, out |-> <<>>,
                 computed_tag |-> ZeroBytes(TAG_BYTES), diff |-> 0, idx |-> 0,
                 result |-> NoResult, log |-> <<>>]]

Init ==
    /\ pc = "idle"
    /\ ncalls = 0
    /\ call = NoCall
    /\ state = [x |-> ZeroWords(8), y |-> ZeroWords(8)]
    /\ flat = ZeroWords(STATE_WORDS)
    /\ step = 0
    /\ steps = 0
    /\ after = "idle"
    /\ offset = 0
    /\ out = <<>>
    /\ computed_tag = ZeroBytes(TAG_BYTES)
    /\ diff = 0
    /\ idx = 0
    /\ result = NoResult
    /\ prev = NoPrev
    /\ log = <<>>
    /\ tid = 0
    /\ parked = NoThread
    /\ alone = <<>>

-----------------------------------------------------------------------------
(* lib.rs: the NIF entry points                                            *)

\* a call returns to the host
Return(c, r) ==
    /\ result' = r
    /\ pc' = "idle"
    /\ ncalls' = ncalls + 1
    /\ prev' = IF ncalls = 0 THEN [call |-> c, result |-> r] ELSE prev

\* fn encrypt(env, key, nonce, plaintext, aad), up to its call of schwaemm_v2::encrypt
NifEncryptArgs(args) ==
    /\ pc = "idle"
    /\ call' = args
    /\ log' = <<>>
    /\ IF Len(args.key) # 32 \/ Len(args.nonce) # 32
       THEN Return(args, [kind |-> "BadArg", output |-> <<>>, tag |-> <<>>])
       ELSE /\ pc' = "initialize"
            /\ UNCHANGED <<result, ncalls, prev>>
    /\ UNCHANGED <<state, flat, step, steps, after, offset, out, computed_tag, diff, idx>>

\* a faulty decrypt: the tag's length is not validated
NifDecryptArgsUncheckedTag(args) ==
    /\ pc = "idle"
    /\ call' = args
    /\ log' = <<>>
    /\ IF Len(args.key) # 32 \/ Len(args.nonce) # 32
       THEN Return(args, [kind |-> "BadArg", output |-> <<>>, tag |-> <<>>])
       ELSE /\ pc' = "initialize"
            /\ UNCHANGED <<result, ncalls, prev>>
    /\ UNCHANGED <<state, flat, step, steps, after, offset, out, computed_tag, diff, idx>>

\* fn decrypt(env, key, nonce, ciphertext, tag, aad), up to its call of schwaemm_v2::decrypt
NifDecryptArgs(args) ==
    /\ pc = "idle"
    /\ call' = args
    /\ log' = <<>>
    /\ IF Len(args.key) # 32 \/ Len(args.nonce) # 32 \/ Len(args.tag) # 32
       THEN Return(args, [kind |-> "BadArg", output |-> <<>>, tag |-> <<>>])
       ELSE /\ pc' = "initialize"
            /\ UNCHANGED <<result, ncalls, prev>>
    /\ UNCHANGED <<state, flat, step, steps, after, offset, out, computed_tag, diff, idx>>

\* the first call: encrypt, with any of the bounded arguments
FirstEncrypt ==
    /\ ncalls = 0
    /\ \E kn \in GoodKeyNonce \cup BadKeyNonce, pt \in Plaintexts, ad \in Aads :
          NifEncryptArgs([op |-> "encrypt", key |-> kn[1], nonce |-> kn[2],
                          input |-> pt, tag |-> <<>>, aad |-> ad])
    /\ UNCHANGED <<tid, parked, alone>>

\* the arguments a decrypt of the first call's output takes
DecryptArgsOf(p) ==
    [op |-> "decrypt", key |-> p.call.key, nonce |-> p.call.nonce,
     input |-> p.result.output, tag |-> p.result.tag, aad |-> p.call.aad]

\* the second call: decrypt what the first call returned, as it is or tampered with
ThenDecrypt ==
    /\ ncalls = 1
    /\ prev.result.kind = "Ok"
    /\ \E t \in Tampers(DecryptArgsOf(prev)) :
          NifDecryptArgs(Tampered(DecryptArgsOf(prev), t))
    /\ UNCHANGED <<tid, parked, alone>>

\* the second call: encrypt the same arguments again
ThenEncryptAgain ==
    /\ ncalls = 1
    /\ prev.result.kind = "Ok"
    /\ NifEncryptArgs(prev.call)
    /\ UNCHANGED <<tid, parked, alone>>

-----------------------------------------------------------------------------
(* schwaemm_v2.rs: encrypt and decrypt, one action per function entered,   *)
(* per block and per permutation step                                      *)

\* sparkle_state(state, n): copy the state to the flat array and enter the step loop
CallSparkle(st, n, ret) ==
    /\ state' = st
    /\ flat' = state_to_flat(st)
    /\ step' = 0
    /\ steps' = n
    /\ after' = ret
    /\ pc' = "sparkle"

\* a faulty initialize: a word of the state the previous call left is mixed in
InitializeOnStaleState ==
    /\ pc = "initialize"
    /\ CallSparkle(XorConst(LoadState(call.key, call.nonce), At(state.y, 7)),
                   SPARKLE_STEPS_BIG, "process_assoc_data")
    /\ log' = Append(log, "initialize") \o <<"BIG">>
    /\ UNCHANGED <<ncalls, call, offset, out, computed_tag, diff, idx, result, prev>>
    /\ UNCHANGED <<tid, parked, alone>>

\* a faulty encrypt/decrypt: the associated data is never processed
InitializeSkippingAssocData ==
    /\ pc = "initialize"
    /\ CallSparkle(LoadState(call.key, call.nonce), SPARKLE_STEPS_BIG, "process_data")
    /\ log' = Append(log, "initialize") \o <<"BIG">>
    /\ UNCHANGED <<ncalls, call, offset, out, computed_tag, diff, idx, result, prev>>
    /\ UNCHANGED <<tid, parked, alone>>

\* fn initialize(key, nonce)
Initialize ==
    /\ pc = "initialize"
    /\ CallSparkle(LoadState(call.key, call.nonce), SPARKLE_STEPS_BIG, "process_assoc_data")
    /\ log' = Append(log, "initialize") \o <<"BIG">>
    /\ UNCHANGED <<ncalls, call, offset, out, computed_tag, diff, idx, result, prev>>
    /\ UNCHANGED <<tid, parked, alone>>

\* one iteration of `for step in 0..steps` in sparkle_generic
SparkleIterate ==
    /\ pc = "sparkle"
    /\ step < steps
    /\ flat' = SparkleStep(flat, step)
    /\ step' = step + 1
    /\ UNCHANGED <<pc, ncalls, call, state, steps, after, offset, out,
                   computed_tag, diff, idx, result, prev, log>>
    /\ UNCHANGED <<tid, parked, alone>>

\* the loop of sparkle_generic ends; sparkle_state copies the flat array back
SparkleReturn ==
    /\ pc = "sparkle"
    /\ step >= steps
    /\ state' = flat_to_state(flat)
    /\ pc' = after
    /\ UNCHANGED <<ncalls, call, flat, step, steps, after, offset, out,
                   computed_tag, diff, idx, result, prev, log>>
    /\ UNCHANGED <<tid, parked, alone>>

\* a faulty process_assoc_data: no early return, empty associated data is a last block
AssocDataEnterNeverSkipping ==
    /\ pc = "process_assoc_data"
    /\ log' = Append(log, "process_assoc_data")
    /\ pc' = "aad_loop"
    /\ offset' = 0
    /\ UNCHANGED <<ncalls, call, state, flat, step, steps, after, out,
                   computed_tag, diff, idx, result, prev>>
    /\ UNCHANGED <<tid, parked, alone>>

\* fn process_assoc_data: entry, `if aad.is_empty() { return; }`, `let mut offset = 0`
AssocDataEnter ==
    /\ pc = "process_assoc_data"
    /\ log' = Append(log, "process_assoc_data")
    /\ IF Len(call.aad) = 0
       THEN pc' = "process_data" /\ UNCHANGED offset
       ELSE pc' = "aad_loop" /\ offset' = 0
    /\ UNCHANGED <<ncalls, call, state, flat, step, steps, after, out,
                   computed_tag, diff, idx, result, prev>>
    /\ UNCHANGED <<tid, parked, alone>>

\* the body of `while aad.len() - offset > RATE_BYTES`
AssocDataBlock ==
    /\ pc = "aad_loop"
    /\ Len(call.aad) - offset > RATE_BYTES
    /\ CallSparkle(rho_whi_aut(state, Slice(call.aad, offset, offset + RATE_BYTES)),
                   SPARKLE_STEPS_SLIM, "aad_loop")
    /\ offset' = offset + RATE_BYTES
    /\ log' = log \o <<"rho_whi_aut", "SLIM">>
    /\ UNCHANGED <<ncalls, call, out, computed_tag, diff, idx, result, prev>>
    /\ UNCHANGED <<tid, parked, alone>>

\* a faulty last block: the constants of the partial and the full block are exchanged
AssocDataLastSwappedConst ==
    /\ pc = "aad_loop"
    /\ ~(Len(call.aad) - offset > RATE_BYTES)
    /\ LET remaining == Slice(call.aad, offset, Len(call.aad))
           const_val == IF Len(remaining) < RATE_BYTES THEN CONST_A1 ELSE CONST_A0
       IN  /\ CallSparkle(rho_whi_aut(XorConst(state, const_val), remaining),
                          SPARKLE_STEPS_BIG, "process_data")
           /\ log' = log \o <<IF Len(remaining) < RATE_BYTES THEN "A1" ELSE "A0",
                              "rho_whi_aut", "BIG">>
    /\ UNCHANGED <<ncalls, call, offset, out, computed_tag, diff, idx, result, prev>>
    /\ UNCHANGED <<tid, parked, alone>>

\* "Authentication of last block"
AssocDataLast ==
    /\ pc = "aad_loop"
    /\ ~(Len(call.aad) - offset > RATE_BYTES)
    /\ LET remaining == Slice(call.aad, offset, Len(call.aad))
           const_val == IF Len(remaining) < RATE_BYTES THEN CONST_A0 ELSE CONST_A1
       IN  /\ CallSparkle(rho_whi_aut(XorConst(state, const_val), remaining),
                          SPARKLE_STEPS_BIG, "process_data")
           /\ log' = log \o <<IF Len(remaining) < RATE_BYTES THEN "A0" ELSE "A1",
                              "rho_whi_aut", "BIG">>
    /\ UNCHANGED <<ncalls, call, offset, out, computed_tag, diff, idx, result, prev>>
    /\ UNCHANGED <<tid, parked, alone>>

\* a different process_plaintext: no early return, an empty plaintext is a last block
PlaintextEnterNeverSkipping ==
    /\ pc = "process_data"
    /\ call.op = "encrypt"
    /\ log' = Append(log, "process_plaintext")
    /\ out' = <<>>
    /\ pc' = "data_loop"
    /\ offset' = 0
    /\ UNCHANGED <<ncalls, call, state, flat, step, steps, after,
                   computed_tag, diff, idx, result, prev>>
    /\ UNCHANGED <<tid, parked, alone>>

\* fn process_plaintext: entry, `if plaintext.is_empty() { return Vec::new(); }`
PlaintextEnter ==
    /\ pc = "process_data"
    /\ call.op = "encrypt"
    /\ log' = Append(log, "process_plaintext")
    /\ out' = <<>>
    /\ IF Len(call.input) = 0
       THEN pc' = "finalize" /\ UNCHANGED offset
       ELSE pc' = "data_loop" /\ offset' = 0
    /\ UNCHANGED <<ncalls, call, state, flat, step, steps, after,
                   computed_tag, diff, idx, result, prev>>
    /\ UNCHANGED <<tid, parked, alone>>

\* a faulty loop: `>=` for `>`, so that a last full block is taken by the loop
PlaintextBlockWhileAtLeastOne ==
    /\ pc = "data_loop"
    /\ call.op = "encrypt"
    /\ Len(call.input) - offset >= RATE_BYTES
    /\ LET r == rho_whi_enc(state, ZeroBytes(RATE_BYTES),
                            Slice(call.input, offset, offset + RATE_BYTES))
       IN  /\ out' = out \o r.output
           /\ CallSparkle(r.state, SPARKLE_STEPS_SLIM, "data_loop")
    /\ offset' = offset + RATE_BYTES
    /\ log' = log \o <<"rho_whi_enc", "SLIM">>
    /\ UNCHANGED <<ncalls, call, computed_tag, diff, idx, result, prev>>
    /\ UNCHANGED <<tid, parked, alone>>

\* the body of `while plaintext.len() - offset > RATE_BYTES`
PlaintextBlock ==
    /\ pc = "data_loop"
    /\ call.op = "encrypt"
    /\ Len(call.input) - offset > RATE_BYTES
    /\ LET r == rho_whi_enc(state, ZeroBytes(RATE_BYTES),
                            Slice(call.input, offset, offset + RATE_BYTES))
       IN  /\ out' = out \o r.output
           /\ CallSparkle(r.state, SPARKLE_STEPS_SLIM, "data_loop")
    /\ offset' = offset + RATE_BYTES
    /\ log' = log \o <<"rho_whi_enc", "SLIM">>
    /\ UNCHANGED <<ncalls, call, computed_tag, diff, idx, result, prev>>
    /\ UNCHANGED <<tid, parked, alone>>

\* a faulty last block: the output buffer is a whole block, whatever remains
PlaintextLastWholeBlock ==
    /\ pc = "data_loop"
    /\ call.op = "encrypt"
    /\ ~(Len(call.input) - offset > RATE_BYTES)
    /\ LET remaining == Slice(call.input, offset, Len(call.input))
           const_val == IF Len(remaining) < RATE_BYTES THEN CONST_M2 ELSE CONST_M3
           r == rho_whi_enc(XorConst(state, const_val), ZeroBytes(RATE_BYTES), remaining)
       IN  /\ out' = out \o r.output
           /\ CallSparkle(r.state, SPARKLE_STEPS_BIG, "finalize")
           /\ log' = log \o <<IF Len(remaining) < RATE_BYTES THEN "M2" ELSE "M3",
                              "rho_whi_enc", "BIG">>
    /\ UNCHANGED <<ncalls, call, offset, computed_tag, diff, idx, result, prev>>
    /\ UNCHANGED <<tid, parked, alone>>

\* a faulty last block: the constant of the partial block is used for a full one too
PlaintextLastAlwaysM2 ==
    /\ pc = "data_loop"
    /\ call.op = "encrypt"
    /\ ~(Len(call.input) - offset > RATE_BYTES)
    /\ LET remaining == Slice(call.input, offset, Len(call.input))
           r == rho_whi_enc(XorConst(state, CONST_M2), ZeroBytes(Len(remaining)), remaining)
       IN  /\ out' = out \o r.output
           /\ CallSparkle(r.state, SPARKLE_STEPS_BIG, "finalize")
           /\ log' = log \o <<"M2", "rho_whi_enc", "BIG">>
    /\ UNCHANGED <<ncalls, call, offset, computed_tag, diff, idx, result, prev>>
    /\ UNCHANGED <<tid, parked, alone>>

\* "Encryption of last block"
PlaintextLast ==
    /\ pc = "data_loop"
    /\ call.op = "encrypt"
    /\ ~(Len(call.input) - offset > RATE_BYTES)
    /\ LET remaining == Slice(call.input, offset, Len(call.input))
           const_val == IF Len(remaining) < RATE_BYTES THEN CONST_M2 ELSE CONST_M3
           r == rho_whi_enc(XorConst(state, const_val), ZeroBytes(Len(remaining)), remaining)
       IN  /\ out' = out \o r.output
           /\ CallSparkle(r.state, SPARKLE_STEPS_BIG, "finalize")
           /\ log' = log \o <<IF Len(remaining) < RATE_BYTES THEN "M2" ELSE "M3",
                              "rho_whi_enc", "BIG">>
    /\ UNCHANGED <<ncalls, call, offset, computed_tag, diff, idx, result, prev>>
    /\ UNCHANGED <<tid, parked, alone>>

\* fn process_ciphertext: entry, `if ciphertext.is_empty() { return Vec::new(); }`
CiphertextEnter ==
    /\ pc = "process_data"
    /\ call.op = "decrypt"
    /\ log' = Append(log, "process_ciphertext")
    /\ out' = <<>>
    /\ IF Len(call.input) = 0
       THEN pc' = "finalize" /\ UNCHANGED offset
       ELSE pc' = "data_loop" /\ offset' = 0
    /\ UNCHANGED <<ncalls, call, state, flat, step, steps, after,
                   computed_tag, diff, idx, result, prev>>
    /\ UNCHANGED <<tid, parked, alone>>

\* a faulty loop: every full block is marked with M3, not the last one only
CiphertextBlockMarked ==
    /\ pc = "data_loop"
    /\ call.op = "decrypt"
    /\ Len(call.input) - offset > RATE_BYTES
    /\ LET r == rho_whi_dec(XorConst(state, CONST_M3), ZeroBytes(RATE_BYTES),
                            Slice(call.input, offset, offset + RATE_BYTES))
       IN  /\ out' = out \o r.output
           /\ CallSparkle(r.state, SPARKLE_STEPS_SLIM, "data_loop")
    /\ offset' = offset + RATE_BYTES
    /\ log' = log \o <<"M3", "rho_whi_dec", "SLIM">>
    /\ UNCHANGED <<ncalls, call, computed_tag, diff, idx, result, prev>>
    /\ UNCHANGED <<tid, parked, alone>>

\* the body of `while ciphertext.len() - offset > RATE_BYTES`
CiphertextBlock ==
    /\ pc = "data_loop"
    /\ call.op = "decrypt"
    /\ Len(call.input) - offset > RATE_BYTES
    /\ LET r == rho_whi_dec(state, ZeroBytes(RATE_BYTES),
                            Slice(call.input, offset, offset + RATE_BYTES))
       IN  /\ out' = out \o r.output
           /\ CallSparkle(r.state, SPARKLE_STEPS_SLIM, "data_loop")
    /\ offset' = offset + RATE_BYTES
    /\ log' = log \o <<"rho_whi_dec", "SLIM">>
    /\ UNCHANGED <<ncalls, call, computed_tag, diff, idx, result, prev>>
    /\ UNCHANGED <<tid, parked, alone>>

\* "Decryption of last block"
CiphertextLast ==
    /\ pc = "data_loop"
    /\ call.op = "decrypt"
    /\ ~(Len(call.input) - offset > RATE_BYTES)
    /\ LET remaining == Slice(call.input, offset, Len(call.input))
           const_val == IF Len(remaining) < RATE_BYTES THEN CONST_M2 ELSE CONST_M3
           r == rho_whi_dec(XorConst(state, const_val), ZeroBytes(Len(remaining)), remaining)
       IN  /\ out' = out \o r.output
           /\ CallSparkle(r.state, SPARKLE_STEPS_BIG, "finalize")
           /\ log' = log \o <<IF Len(remaining) < RATE_BYTES THEN "M2" ELSE "M3",
                              "rho_whi_dec", "BIG">>
    /\ UNCHANGED <<ncalls, call, offset, computed_tag, diff, idx, result, prev>>
    /\ UNCHANGED <<tid, parked, alone>>

\* a different finalize: the state is permuted with BIG steps after the key is added
FinalizeThenPermute ==
    /\ pc = "finalize"
    /\ CallSparkle(finalize(state, call.key), SPARKLE_STEPS_BIG,
                   IF call.op = "encrypt" THEN "generate_tag" ELSE "verify_tag")
    /\ log' = Append(log, "finalize") \o <<"BIG">>
    /\ UNCHANGED <<ncalls, call, offset, out, computed_tag, diff, idx, result, prev>>
    /\ UNCHANGED <<tid, parked, alone>>

\* fn finalize(state, key)
Finalize ==
    /\ pc = "finalize"
    /\ state' = finalize(state, call.key)
    /\ pc' = IF call.op = "encrypt" THEN "generate_tag" ELSE "verify_tag"
    /\ log' = Append(log, "finalize")
    /\ UNCHANGED <<ncalls, call, flat, step, steps, after, offset, out,
                   computed_tag, diff, idx, result, prev>>
    /\ UNCHANGED <<tid, parked, alone>>

\* fn generate_tag; encrypt returns (ciphertext, tag) and the NIF copies both out
GenerateTag ==
    /\ pc = "generate_tag"
    /\ log' = Append(log, "generate_tag")
    /\ Return(call, [kind |-> "Ok", output |-> out, tag |-> generate_tag(state)])
    /\ UNCHANGED <<call, state, flat, step, steps, after, offset, out,
                   computed_tag, diff, idx>>
    /\ UNCHANGED <<tid, parked, alone>>

\* fn verify_tag: computed_tag from the capacity, `let mut diff = 0u8`
VerifyTagEnter ==
    /\ pc = "verify_tag"
    /\ computed_tag' = words_to_bytes_le[TagWords(state), ZeroBytes(TAG_BYTES)]
    /\ diff' = 0
    /\ idx' = 0
    /\ pc' = "verify_loop"
    /\ log' = Append(log, "verify_tag")
    /\ UNCHANGED <<ncalls, call, state, flat, step, steps, after, offset, out, result, prev>>
    /\ UNCHANGED <<tid, parked, alone>>

\* the body of `for i in 0..TAG_BYTES`: `diff |= computed_tag[i] ^ tag[i]`
VerifyTagByte ==
    /\ pc = "verify_loop"
    /\ idx < TAG_BYTES
    /\ diff' = Or8(diff, Xor8(At(computed_tag, idx), At(call.tag, idx)))
    /\ idx' = idx + 1
    /\ UNCHANGED <<pc, ncalls, call, state, flat, step, steps, after, offset, out,
                   computed_tag, result, prev, log>>
    /\ UNCHANGED <<tid, parked, alone>>

\* a faulty comparison: the loop is left at the first mismatch
VerifyTagEarlyExit ==
    /\ pc = "verify_loop"
    /\ idx >= TAG_BYTES \/ diff # 0
    /\ IF diff = 0
       THEN Return(call, [kind |-> "Ok", output |-> out, tag |-> <<>>])
       ELSE Return(call, [kind |-> "authentication failed", output |-> <<>>, tag |-> <<>>])
    /\ UNCHANGED <<call, state, flat, step, steps, after, offset, out,
                   computed_tag, diff, idx, log>>
    /\ UNCHANGED <<tid, parked, alone>>

\* a faulty return: the plaintext computed so far is handed out with the error
VerifyTagReturnWithPlaintext ==
    /\ pc = "verify_loop"
    /\ idx >= TAG_BYTES
    /\ IF diff = 0
       THEN Return(call, [kind |-> "Ok", output |-> out, tag |-> <<>>])
       ELSE Return(call, [kind |-> "authentication failed", output |-> out, tag |-> <<>>])
    /\ UNCHANGED <<call, state, flat, step, steps, after, offset, out,
                   computed_tag, diff, idx, log>>
    /\ UNCHANGED <<tid, parked, alone>>

\* `diff == 0`; decrypt returns Ok(plaintext) or Err, which the NIF raises as a term
VerifyTagReturn ==
    /\ pc = "verify_loop"
    /\ idx >= TAG_BYTES
    /\ IF diff = 0
       THEN Return(call, [kind |-> "Ok", output |-> out, tag |-> <<>>])
       ELSE Return(call, [kind |-> "authentication failed", output |-> <<>>, tag |-> <<>>])
    /\ UNCHANGED <<call, state, flat, step, steps, after, offset, out,
                   computed_tag, diff, idx, log>>
    /\ UNCHANGED <<tid, parked, alone>>

Next ==
    \/ FirstEncrypt
    \/ ThenDecrypt
    \/ ThenEncryptAgain
    \/ Initialize
    \/ SparkleIterate
    \/ SparkleReturn
    \/ AssocDataEnter
    \/ AssocDataBlock
    \/ AssocDataLast
    \/ PlaintextEnter
    \/ PlaintextBlock
    \/ PlaintextLast
    \/ CiphertextEnter
    \/ CiphertextBlock
    \/ CiphertextLast
    \/ Finalize
    \/ GenerateTag
    \/ VerifyTagEnter
    \/ VerifyTagByte
    \/ VerifyTagReturn

Spec == Init /\ [][Next]_vars

-----------------------------------------------------------------------------
(* Calls that run interleaved: the NIF is entered by any scheduler thread,  *)
(* each call with the locals of its own stack frames                        *)

\* the calls that are run again, concurrently: the first call, an encrypt of
\* one partial or one full block with the test key, and the second call, the
\* same encrypt again or a decrypt of its output with the tag as it is or wrong
ConcurrentCalls ==
    /\ prev.call.key = TestKey
    /\ Len(prev.call.input) \in {1, RATE_BYTES}
    /\ Len(prev.call.aad) \in {0, RATE_BYTES + 1}
    /\ \/ call = prev.call
       \/ call = DecryptArgsOf(prev)
       \/ \E site \in FlipSites(TAG_BYTES) :
             call = Tampered(DecryptArgsOf(prev), <<Flip("tag", site)>>)

\* two threads enter the NIF with the arguments of the two calls that have
\* run alone; thread 1 runs first
Fork ==
    /\ tid = 0
    /\ ncalls = 2
    /\ ConcurrentCalls
    /\ alone' = <<prev, [call |-> call, result |-> result]>>
    /\ tid' = 1
    /\ parked' = [tid |-> 2, locals |-> NoThread.locals]
    /\ NifEncryptArgs(prev.call)

\* a thread that has not yet run enters the NIF
ThreadEntry ==
    /\ tid # 0
    /\ result = NoResult
    /\ IF alone[tid].call.op = "encrypt"
       THEN NifEncryptArgs(alone[tid].call)
       ELSE NifDecryptArgs(alone[tid].call)
    /\ UNCHANGED <<tid, parked, alone>>

\* a faulty cipher: the SparkleState is one static that all calls use
SwitchSharingState ==
    /\ tid # 0
    /\ parked' = [tid |-> tid, locals |-> Locals]
    /\ tid' = parked.tid
    /\ pc' = parked.locals.pc
    /\ call' = parked.locals.call
    /\ state' = state
    /\ flat' = parked.locals.flat
    /\ step' = parked.locals.step
    /\ steps' = parked.locals.steps
    /\ after' = parked.locals.after
    /\ offset' = parked.locals.offset
    /\ out' = parked.locals.out
    /\ computed_tag' = parked.locals.computed_tag
    /\ diff' = parked.locals.diff
    /\ idx' = parked.locals.idx
    /\ result' = parked.locals.result
    /\ log' = parked.locals.log
    /\ UNCHANGED <<ncalls, prev, alone>>

\* the scheduler runs the other thread: each thread has its own arguments,
\* `let mut state`, flat copy, loop variables, output Vec and return value
Switch ==
    /\ tid # 0
    /\ parked' = [tid |-> tid, locals |-> Locals]
    /\ tid' = parked.tid
    /\ pc' = parked.locals.pc
    /\ call' = parked.locals.call
    /\ state' = parked.locals.state
    /\ flat' = parked.locals.flat
    /\ step' = parked.locals.step
    /\ steps' = parked.locals.steps
    /\ after' = parked.locals.after
    /\ offset' = parked.locals.offset
    /\ out' = parked.locals.out
    /\ computed_tag' = parked.locals.computed_tag
    /\ diff' = parked.locals.diff
    /\ idx' = parked.locals.idx
    /\ result' = parked.locals.result
    /\ log' = parked.locals.log
    /\ UNCHANGED <<ncalls, prev, alone>>

NextConcurrent ==
    \/ Next
    \/ Fork
    \/ ThreadEntry
    \/ Switch

SpecConcurrent == Init /\ [][NextConcurrent]_vars

-----------------------------------------------------------------------------
(* The rho functions on their own: any of a set of states, any block of 0  *)
(* to 32 bytes                                                             *)

\* states with 16 different words: what initialize loads from the test vectors'
\* key and nonce, and from the roundtrip test's, and one bit per word
RhoStates ==
    { LoadState(KatKey, [i \in 1..NONCE_BYTES |-> 255 - i]),
      LoadState(TestKey, TestNonce),
      [x |-> [i \in 1..8 |-> <<2 ^ (i - 1), 2 ^ (i + 7)>>],
       y |-> [i \in 1..8 |-> <<2 ^ (i + 7), 2 ^ (i - 1)>>]] }

\* blocks of every length from 0 to 32 bytes, of two byte patterns
RhoBlocks ==
    {[i \in 1..n |-> 160 + i] : n \in 0..RATE_BYTES}
    \cup {[i \in 1..n |-> (7 * i) % 256] : n \in 0..RATE_BYTES}

InitRho ==
    /\ pc = "rho"
    /\ ncalls = 0
    /\ call \in {[NoCall EXCEPT !.op = "rho", !.input = b] : b \in RhoBlocks}
    /\ state \in RhoStates
    /\ flat = ZeroWords(STATE_WORDS)
    /\ step = 0
    /\ steps = 0
    /\ after = "idle"
    /\ offset = 0
    /\ out = <<>>
    /\ computed_tag = ZeroBytes(TAG_BYTES)
    /\ diff = 0
    /\ idx = 0
    /\ result = NoResult
    /\ prev = NoPrev
    /\ log = <<>>
    /\ tid = 0
    /\ parked = NoThread
    /\ alone = <<>>

\* rho_whi_aut(state, block)
RhoAut ==
    /\ pc = "rho"
    /\ state' = rho_whi_aut(state, call.input)
    /\ log' = <<"rho_whi_aut">>
    /\ pc' = "rho_done"
    /\ UNCHANGED <<ncalls, call, flat, step, steps, after, offset, out,
                   computed_tag, diff, idx, result, prev, tid, parked, alone>>

\* rho_whi_enc(state, &mut vec![0u8; block.len()], block)
RhoEnc ==
    /\ pc = "rho"
    /\ LET r == rho_whi_enc(state, ZeroBytes(Len(call.input)), call.input)
       IN  state' = r.state /\ out' = r.output
    /\ log' = <<"rho_whi_enc">>
    /\ pc' = "rho_done"
    /\ UNCHANGED <<ncalls, call, flat, step, steps, after, offset,
                   computed_tag, diff, idx, result, prev, tid, parked, alone>>

\* rho_whi_dec(state, &mut vec![0u8; block.len()], block)
RhoDec ==
    /\ pc = "rho"
    /\ LET r == rho_whi_dec(state, ZeroBytes(Len(call.input)), call.input)
       IN  state' = r.state /\ out' = r.output
    /\ log' = <<"rho_whi_dec">>
    /\ pc' = "rho_done"
    /\ UNCHANGED <<ncalls, call, flat, step, steps, after, offset,
                   computed_tag, diff, idx, result, prev, tid, parked, alone>>

\* rho_whi_enc on a copy of the state, then rho_whi_dec(state, ..) on the ciphertext block
RhoEncThenDec ==
    /\ pc = "rho"
    /\ LET e == rho_whi_enc(state, ZeroBytes(Len(call.input)), call.input)
           d == rho_whi_dec(state, ZeroBytes(Len(e.output)), e.output)
       IN  state' = d.state /\ out' = d.output
    /\ log' = <<"rho_whi_enc", "rho_whi_dec">>
    /\ pc' = "rho_done"
    /\ UNCHANGED <<ncalls, call, flat, step, steps, after, offset,
                   computed_tag, diff, idx, result, prev, tid, parked, alone>>

NextRho ==
    \/ RhoAut
    \/ RhoEnc
    \/ RhoDec
    \/ RhoEncThenDec

SpecRho == InitRho /\ [][NextRho]_vars

-----------------------------------------------------------------------------
(* Two encrypt calls with one key, nonce and associated data               *)

\* the byte strings of the lengths of PtLens that agree with 0, 1, 2, ... on
\* their first k bytes and differ from it in every later byte
DivergingPlaintexts ==
    { [i \in 1..m |-> IF i <= k THEN (i - 1) % 256 ELSE 255 - ((i - 1) % 256)] :
          m \in PtLens, k \in {0, 1, RATE_BYTES - 1, RATE_BYTES, RATE_BYTES + 1} }

\* the second call: encrypt another plaintext under the key, nonce and aad of the first
ThenEncryptOther ==
    /\ ncalls = 1
    /\ prev.result.kind = "Ok"
    /\ \E pt \in Plaintexts \cup DivergingPlaintexts :
          NifEncryptArgs([prev.call EXCEPT !.input = pt])
    /\ UNCHANGED <<tid, parked, alone>>

NextPrefix ==
    \/ FirstEncrypt
    \/ ThenEncryptOther
    \/ Initialize
    \/ SparkleIterate
    \/ SparkleReturn
    \/ AssocDataEnter
    \/ AssocDataBlock
    \/ AssocDataLast
    \/ PlaintextEnter
    \/ PlaintextBlock
    \/ PlaintextLast
    \/ Finalize
    \/ GenerateTag

SpecPrefix == Init /\ [][NextPrefix]_vars

-----------------------------------------------------------------------------
(* The rho functions on their own and inside whole calls, side by side     *)

InitFrame == Init \/ InitRho

NextFrame == Next \/ NextRho

SpecFrame == InitFrame /\ [][NextFrame]_vars

-----------------------------------------------------------------------------
(* sparkle.rs on its own: alzette, linear_layer and the permutations of    *)
(* 8, 12 and 16 words                                                      *)

\* 0, 1, 0x80000000, 0xFFFFFFFF and the words of test_alzette_deterministic
AlzetteWords ==
    { Zero32, AsU32(1), U32(32768, 0), U32(65535, 65535), U32(4660, 22136), U32(39612, 57072) }

\* <<x, y, c>>: c is 0, RCON[0], RCON[7] or the test's 0xCAFEBABE
AlzetteInputs ==
    { <<x, y, c>> : x \in AlzetteWords, y \in AlzetteWords,
                    c \in {Zero32, At(RCON, 0), At(RCON, 7), U32(51966, 47806)} }

\* states of 8, 12 and 16 words: 1, 2, 3, ... as in test_sparkle_256_deterministic,
\* one bit per word, and words with all four bytes different
PermInputs ==
    UNION { { [i \in 1..n |-> AsU32(i)],
              [i \in 1..n |-> <<2 ^ (i - 1), 2 ^ (16 - i)>>],
              [i \in 1..n |-> <<(4660 + 257 * i) % Half, (22136 * i + 11) % Half>>] }
            : n \in {8, 12, 16} }

\* the step counts of the callers (8 and 12), of the tests (7) and 0, 1, 17
StepCounts == {0, 1, 7, SPARKLE_STEPS_SLIM, SPARKLE_STEPS_BIG, 17}

InitSparkle ==
    /\ \/ pc = "alzette" /\ flat \in AlzetteInputs
       \/ pc = "linear_layer" /\ flat \in PermInputs
       \/ pc = "sparkle_idle" /\ flat \in PermInputs
    /\ ncalls = 0
    /\ call = NoCall
    /\ state = [x |-> ZeroWords(8), y |-> ZeroWords(8)]
    /\ step = 0
    /\ steps = 0
    /\ after = "idle"
    /\ offset = 0
    /\ out = <<>>
    /\ computed_tag = ZeroBytes(TAG_BYTES)
    /\ diff = 0
    /\ idx = 0
    /\ result = NoResult
    /\ prev = NoPrev
    /\ log = <<>>
    /\ tid = 0
    /\ parked = NoThread
    /\ alone = <<>>

\* let (x, y) = alzette(x, y, c)
AlzetteCall ==
    /\ pc = "alzette"
    /\ LET r == alzette(At(flat, 0), At(flat, 1), At(flat, 2))
       IN  flat' = <<r[1], r[2], At(flat, 2)>>
    /\ pc' = "alzette_done"
    /\ UNCHANGED <<ncalls, call, state, step, steps, after, offset, out, computed_tag,
                   diff, idx, result, prev, log, tid, parked, alone>>

\* linear_layer(&mut state)
LinearLayerCall ==
    /\ pc = "linear_layer"
    /\ flat' = linear_layer(flat)
    /\ pc' = "linear_layer_done"
    /\ UNCHANGED <<ncalls, call, state, step, steps, after, offset, out, computed_tag,
                   diff, idx, result, prev, log, tid, parked, alone>>

\* sparkle_256 / sparkle_384 / sparkle_512 (state, n): sparkle_generic is entered,
\* at most twice on the same array
PermuteCall ==
    /\ pc = "sparkle_idle"
    /\ ncalls < 2
    /\ \E n \in StepCounts : steps' = n
    /\ step' = 0
    /\ log' = <<>>
    /\ pc' = "sparkle_generic"
    /\ UNCHANGED <<ncalls, call, state, flat, after, offset, out, computed_tag,
                   diff, idx, result, prev, tid, parked, alone>>

\* one iteration of `for step in 0..steps`, on a state of any of the three sizes
PermuteStep ==
    /\ pc = "sparkle_generic"
    /\ step < steps
    /\ flat' = SparkleStep(flat, step)
    /\ step' = step + 1
    /\ log' = Append(log, step)
    /\ UNCHANGED <<pc, ncalls, call, state, steps, after, offset, out, computed_tag,
                   diff, idx, result, prev, tid, parked, alone>>

\* the loop ends and sparkle_generic returns
PermuteReturn ==
    /\ pc = "sparkle_generic"
    /\ step >= steps
    /\ pc' = "sparkle_idle"
    /\ ncalls' = ncalls + 1
    /\ UNCHANGED <<call, state, flat, step, steps, after, offset, out, computed_tag,
                   diff, idx, result, prev, log, tid, parked, alone>>

NextSparkle ==
    \/ AlzetteCall
    \/ LinearLayerCall
    \/ PermuteCall
    \/ PermuteStep
    \/ PermuteReturn

SpecSparkle == InitSparkle /\ [][NextSparkle]_vars

-----------------------------------------------------------------------------
(* schwaemm.rs: the earlier construction, on one flat array of 16 words    *)
(* (rate = words 0..8, capacity = words 8..16)                             *)

\* the domain separation constants of schwaemm.rs
FLAT_CONST_A0 == U32(0, 0)

FLAT_CONST_A1 == U32(256, 0)

FLAT_CONST_M2 == U32(512, 0)

FLAT_CONST_M3 == U32(768, 0)

\* u32 | u32
Or32(v, w) ==
    << Or8(v[1] % 256, w[1] % 256) + 256 * Or8(v[1] \div 256, w[1] \div 256),
       Or8(v[2] % 256, w[2] % 256) + 256 * Or8(v[2] \div 256, w[2] \div 256) >>

\* fn bytes_to_words(bytes, words) on a zeroed array of RATE_WORDS words
bytes_to_words(bytes) ==
    Collect([i \in 1..RATE_WORDS |->
        FromLeBytes(ChunkByte(bytes, 4 * (i - 1)), ChunkByte(bytes, 4 * (i - 1) + 1),
                    ChunkByte(bytes, 4 * (i - 1) + 2), ChunkByte(bytes, 4 * (i - 1) + 3))])

\* fn words_to_bytes(words, bytes) on RATE_WORDS words and RATE_BYTES bytes
words_to_bytes(words) ==
    Collect([k \in 1..RATE_BYTES |-> ToLeByte(At(words, (k - 1) \div 4), (k - 1) % 4)])

\* fn bytes_to_word(bytes)
bytes_to_word(bytes) ==
    FromLeBytes(ChunkByte(bytes, 0), ChunkByte(bytes, 1), ChunkByte(bytes, 2), ChunkByte(bytes, 3))

\* data.chunks(RATE_BYTES): the chunk that starts at byte `from`
FlatChunk(data, from) ==
    SubSeq(data, from + 1, IF from + RATE_BYTES < Len(data) THEN from + RATE_BYTES ELSE Len(data))

\* for i in 0..RATE_WORDS { state[i] ^= words[i] }
FlatXorRate(st, words) ==
    Collect([k \in 1..STATE_WORDS |-> IF k <= RATE_WORDS THEN Xor[st[k], words[k]] ELSE st[k]])

\* for i in 0..RATE_WORDS { state[i] = words[i] }
FlatSetRate(st, words) ==
    Collect([k \in 1..STATE_WORDS |-> IF k <= RATE_WORDS THEN words[k] ELSE st[k]])

\* if len < RATE_BYTES { state[0] ^= partial | (1 << 24); state[1] ^= (len as u32) << 24 }
\* else { state[0] ^= full }
FlatDomain(st, partial, full, len) ==
    IF len < RATE_BYTES
    THEN Put(Put(st, 0, Xor[At(st, 0), Or32(partial, U32(256, 0))]),
             1, Xor[At(st, 1), <<0, (len % 256) * 256>>])
    ELSE Put(st, 0, Xor[At(st, 0), full])

\* for i in 0..CAP_WORDS { state[RATE_WORDS + i] ^= bytes_to_word(&key[i * 4..(i + 1) * 4]) }
FlatKeyXor(st, key) ==
    Collect([k \in 1..STATE_WORDS |->
        IF k <= RATE_WORDS THEN st[k]
        ELSE Xor[st[k], bytes_to_word(Slice(key, 4 * (k - 1 - RATE_WORDS), 4 * (k - RATE_WORDS)))]])

\* for i in 0..TAG_BYTES { diff |= computed_tag[i] ^ tag[i] }
FlatDiff[a \in Bytes, b \in Bytes, i \in Nat, d \in 0..255] ==
    IF i >= TAG_BYTES THEN d ELSE FlatDiff[a, b, i + 1, Or8(d, Xor8(At(a, i), At(b, i)))]

\* b"Hello, Schwaemm!" and b"additional data" of test_encrypt_decrypt_basic
HelloSchwaemm == <<72, 101, 108, 108, 111, 44, 32, 83, 99, 104, 119, 97, 101, 109, 109, 33>>

AdditionalData == <<97, 100, 100, 105, 116, 105, 111, 110, 97, 108, 32, 100, 97, 116, 97>>

\* the keys and nonces of test_encrypt_decrypt_empty and test_encrypt_decrypt_basic
FlatKeyNonce == { <<Fill(KEY_BYTES, 0), Fill(NONCE_BYTES, 0)>>, <<Fill(KEY_BYTES, 1), Fill(NONCE_BYTES, 2)>> }

\* the tests' plaintexts, and whole blocks with and without a partial one after them
FlatPlaintexts == { <<>>, HelloSchwaemm, AscBytes(RATE_BYTES), AscBytes(RATE_BYTES + 1), AscBytes(2 * RATE_BYTES) }

FlatAads == { <<>>, AdditionalData, AscBytes(RATE_BYTES) }

\* encrypt / decrypt entered: the nonce goes to the rate words, the key to the capacity words
FlatCall(args) ==
    /\ pc = "idle"
    /\ call' = args
    /\ flat' = bytes_to_words(args.nonce) \o bytes_to_words(args.key)
    /\ offset' = 0
    /\ out' = <<>>
    /\ log' = <<>>
    /\ pc' = "flat_aad"
    /\ UNCHANGED <<ncalls, state, step, steps, after, computed_tag, diff, idx, result, prev,
                   tid, parked, alone>>

\* pub fn encrypt(key, nonce, plaintext, aad)
FlatEncrypt ==
    /\ ncalls = 0
    /\ \E kn \in FlatKeyNonce, pt \in FlatPlaintexts, ad \in FlatAads :
          FlatCall([op |-> "encrypt", key |-> kn[1], nonce |-> kn[2],
                    input |-> pt, tag |-> <<>>, aad |-> ad])

\* pub fn decrypt(key, nonce, ciphertext, tag, aad) on what encrypt returned
FlatDecrypt ==
    /\ ncalls = 1
    /\ FlatCall(DecryptArgsOf(prev))

\* sparkle_512(&mut state, n)
FlatSparkle(st, n, ret) ==
    /\ flat' = st
    /\ step' = 0
    /\ steps' = n
    /\ after' = ret
    /\ pc' = "sparkle"

\* sparkle_512 returns to the loop that called it
FlatSparkleReturn ==
    /\ pc = "sparkle"
    /\ step >= steps
    /\ pc' = after
    /\ UNCHANGED <<ncalls, call, state, flat, step, steps, after, offset, out, computed_tag,
                   diff, idx, result, prev, log, tid, parked, alone>>

\* one chunk of the associated data (encrypt and decrypt alike)
FlatAadBlock ==
    /\ pc = "flat_aad"
    /\ offset < Len(call.aad)
    /\ LET chunk == FlatChunk(call.aad, offset)
       IN  /\ FlatSparkle(FlatDomain(FlatXorRate(flat, bytes_to_words(chunk)),
                                     FLAT_CONST_A0, FLAT_CONST_A1, Len(chunk)),
                          SPARKLE_STEPS_SLIM, "flat_aad")
           /\ offset' = offset + Len(chunk)
    /\ UNCHANGED <<ncalls, call, state, out, computed_tag, diff, idx, result, prev, log,
                   tid, parked, alone>>

\* the associated data is empty or used up
FlatAadDone ==
    /\ pc = "flat_aad"
    /\ offset >= Len(call.aad)
    /\ offset' = 0
    /\ pc' = "flat_data"
    /\ UNCHANGED <<ncalls, call, state, flat, step, steps, after, out, computed_tag,
                   diff, idx, result, prev, log, tid, parked, alone>>

\* encrypt, one chunk of the plaintext: ct = state ^ pt, state ^= pt
FlatPlaintextBlock ==
    /\ pc = "flat_data"
    /\ call.op = "encrypt"
    /\ offset < Len(call.input)
    /\ LET chunk    == FlatChunk(call.input, offset)
           pt_words == bytes_to_words(chunk)
           ct_block == words_to_bytes(SubSeq(FlatXorRate(flat, pt_words), 1, RATE_WORDS))
       IN  /\ out' = out \o SubSeq(ct_block, 1, Len(chunk))
           /\ FlatSparkle(FlatDomain(FlatXorRate(flat, pt_words),
                                     FLAT_CONST_M2, FLAT_CONST_M3, Len(chunk)),
                          SPARKLE_STEPS_BIG, "flat_data")
           /\ offset' = offset + Len(chunk)
    /\ UNCHANGED <<ncalls, call, state, computed_tag, diff, idx, result, prev, log,
                   tid, parked, alone>>

\* decrypt, one chunk of the ciphertext: pt = state ^ ct, state = ct
FlatCiphertextBlock ==
    /\ pc = "flat_data"
    /\ call.op = "decrypt"
    /\ offset < Len(call.input)
    /\ LET chunk    == FlatChunk(call.input, offset)
           ct_words == bytes_to_words(chunk)
           pt_block == words_to_bytes(SubSeq(FlatXorRate(flat, ct_words), 1, RATE_WORDS))
       IN  /\ out' = out \o SubSeq(pt_block, 1, Len(chunk))
           /\ FlatSparkle(FlatDomain(FlatSetRate(flat, ct_words),
                                     FLAT_CONST_M2, FLAT_CONST_M3, Len(chunk)),
                          SPARKLE_STEPS_BIG, "flat_data")
           /\ offset' = offset + Len(chunk)
    /\ UNCHANGED <<ncalls, call, state, computed_tag, diff, idx, result, prev, log,
                   tid, parked, alone>>

\* finalization: the key is XORed into the capacity, then the big permutation
FlatFinalize ==
    /\ pc = "flat_data"
    /\ offset >= Len(call.input)
    /\ FlatSparkle(FlatKeyXor(flat, call.key), SPARKLE_STEPS_BIG, "flat_tag")
    /\ UNCHANGED <<ncalls, call, state, offset, out, computed_tag, diff, idx, result, prev,
                   log, tid, parked, alone>>

\* the tag is read from the rate words; decrypt compares it with the tag it was given
FlatReturn ==
    /\ pc = "flat_tag"
    /\ LET t == words_to_bytes(SubSeq(flat, 1, RATE_WORDS))
           d == FlatDiff[t, call.tag, 0, 0]
       IN  IF call.op = "encrypt"
           THEN /\ Return(call, [kind |-> "Ok", output |-> out, tag |-> t])
                /\ UNCHANGED <<computed_tag, diff>>
           ELSE /\ computed_tag' = t
                /\ diff' = d
                /\ IF d # 0
                   THEN Return(call, [kind |-> "authentication failed", output |-> <<>>, tag |-> <<>>])
                   ELSE Return(call, [kind |-> "Ok", output |-> out, tag |-> <<>>])
    /\ UNCHANGED <<call, state, flat, step, steps, after, offset, out, idx, log,
                   tid, parked, alone>>

NextFlat ==
    \/ FlatEncrypt
    \/ FlatDecrypt
    \/ FlatAadBlock
    \/ FlatAadDone
    \/ FlatPlaintextBlock
    \/ FlatCiphertextBlock
    \/ FlatFinalize
    \/ FlatReturn
    \/ SparkleIterate
    \/ FlatSparkleReturn

SpecFlat == Init /\ [][NextFlat]_vars

-----------------------------------------------------------------------------
(* Properties                                                              *)

\* tests' fn hex_to_bytes, on the hex digits' values (1E -> <<1, 14>> -> 30)
hex_to_bytes(hex) == [i \in 1..(Len(hex) \div 2) |-> 16 * hex[2 * i - 1] + hex[2 * i]]

\* 1E41C39049501061A480341DC8551F3CCE171900EB8F90BA5C54B2A7CC2BFDF2
Kat1TagHex ==
    <<
       1, 14, 4, 1, 12, 3, 9, 0, 4, 9, 5, 0, 1, 0, 6, 1, 10, 4, 8, 0, 3, 4, 1, 13, 12, 8, 5, 5, 1, 15, 3, 12,
       12, 14, 1, 7, 1, 9, 0, 0, 14, 11, 8, 15, 9, 0, 11, 10, 5, 12, 5, 4, 11, 2, 10, 7, 12, 12, 2, 11, 15, 13, 15, 2 >>

\* 6AF0F211BC7FF4186EEA03D37025F294036BE6E90970713E5B5A630FFF07DCBE
Kat2TagHex ==
    <<
       6, 10, 15, 0, 15, 2, 1, 1, 11, 12, 7, 15, 15, 4, 1, 8, 6, 14, 14, 10, 0, 3, 13, 3, 7, 0, 2, 5, 15, 2, 9, 4,
       0, 3, 6, 11, 14, 6, 14, 9, 0, 9, 7, 0, 7, 1, 3, 14, 5, 11, 5, 10, 6, 3, 0, 15, 15, 15, 0, 7, 13, 12, 11, 14 >>

\* E3CED9AB9967846E9F39911BEBA2FFC4585C560043E4381E5FDAF8789265D791
Kat34TagHex ==
    <<
       14, 3, 12, 14, 13, 9, 10, 11, 9, 9, 6, 7, 8, 4, 6, 14, 9, 15, 3, 9, 9, 1, 1, 11, 14, 11, 10, 2, 15, 15, 12, 4,
       5, 8, 5, 12, 5, 6, 0, 0, 4, 3, 14, 4, 3, 8, 1, 14, 5, 15, 13, 10, 15, 8, 7, 8, 9, 2, 6, 5, 13, 7, 9, 1 >>

\* BB5918195DC5D4D944594A7B63D6460140BE022EFB65D13C16FB50A48F224B69
Kat1057CtHex ==
    <<
       11, 11, 5, 9, 1, 8, 1, 9, 5, 13, 12, 5, 13, 4, 13, 9, 4, 4, 5, 9, 4, 10, 7, 11, 6, 3, 13, 6, 4, 6, 0, 1,
       4, 0, 11, 14, 0, 2, 2, 14, 15, 11, 6, 5, 13, 1, 3, 12, 1, 6, 15, 11, 5, 0, 10, 4, 8, 15, 2, 2, 4, 11, 6, 9 >>

\* 7E6B81DCA1366D43EE20B152AD39CEFCB6103D3EC26A1DC5277B117ADA1ED1BB
Kat1057TagHex ==
    <<
       7, 14, 6, 11, 8, 1, 13, 12, 10, 1, 3, 6, 6, 13, 4, 3, 14, 14, 2, 0, 11, 1, 5, 2, 10, 13, 3, 9, 12, 14, 15, 12,
       11, 6, 1, 0, 3, 13, 3, 14, 12, 2, 6, 10, 1, 13, 12, 5, 2, 7, 7, 11, 1, 1, 7, 10, 13, 10, 1, 14, 13, 1, 11, 11 >>

\* a call has returned
Returned == pc = "idle" /\ ncalls >= 1

EncryptReturned == Returned /\ call.op = "encrypt" /\ result.kind # "BadArg"

DecryptReturned == Returned /\ call.op = "decrypt" /\ result.kind # "BadArg"

\* the second call decrypts exactly what the first call returned
Untampered == call = DecryptArgsOf(prev)

\* the second call's arguments are the first call's output with one bit flipped in field f
OneBitFlipped(f) ==
    \E site \in FlipSites(Len(DecryptArgsOf(prev)[f])) :
        call = Tampered(DecryptArgsOf(prev), <<Flip(f, site)>>)

\* C1: decrypting, with the same key, nonce and aad, the ciphertext and tag that
\* encrypt returned gives Ok with the plaintext that was encrypted, whatever
\* the plaintext and aad lengths
C1_RoundTrip ==
    (DecryptReturned /\ Untampered) =>
        (result.kind = "Ok" /\ result.output = prev.call.input)

C1_Witness ==
    /\ DecryptReturned /\ Untampered
    /\ Len(prev.call.input) = 2 * RATE_BYTES
    /\ Len(call.aad) = RATE_BYTES + 1
    /\ call.key = TestKey
    /\ result.kind = "Ok"

\* C2: verify_tag examines the 32 byte pairs one after the other, a pair leaves
\* the accumulator zero only if the accumulator was zero and the pair is equal,
\* the loop is left only after the 32nd pair, and decrypt then returns Ok if
\* the supplied tag equals the recomputed one and "authentication failed" if not
C2_FullLengthCompare ==
    [][ pc = "verify_loop" =>
          IF pc' = "verify_loop"
          THEN /\ idx < TAG_BYTES
               /\ idx' = idx + 1
               /\ (diff' = 0) <=> (diff = 0 /\ At(computed_tag, idx) = At(call.tag, idx))
          ELSE /\ idx = TAG_BYTES
               /\ result'.kind = IF computed_tag = call.tag THEN "Ok"
                                 ELSE "authentication failed" ]_vars

\* a tag wrong in its first byte only: the loop still ran to the end
C2_Witness ==
    /\ DecryptReturned
    /\ At(computed_tag, 0) # At(call.tag, 0)
    /\ SubSeq(computed_tag, 2, TAG_BYTES) = SubSeq(call.tag, 2, TAG_BYTES)
    /\ idx = TAG_BYTES
    /\ result.kind = "authentication failed"

\* C3: with one bit of the ciphertext, the aad, the key or the nonce flipped
\* between encrypt and decrypt, decrypt fails with "authentication failed"
C3_TamperDetection ==
    (DecryptReturned /\ \E f \in {"input", "aad", "key", "nonce"} : OneBitFlipped(f)) =>
        result.kind = "authentication failed"

C3_Witness ==
    /\ DecryptReturned
    /\ OneBitFlipped("aad")
    /\ Len(call.aad) = RATE_BYTES + 1
    /\ Len(call.input) = RATE_BYTES
    /\ result.kind = "authentication failed"

\* C4: an encrypt call with the arguments of an earlier encrypt call returns
\* the same ciphertext and tag
C4_Determinism ==
    (EncryptReturned /\ ncalls = 2 /\ call = prev.call) => result = prev.result

C4_Witness ==
    /\ EncryptReturned /\ ncalls = 2 /\ call = prev.call
    /\ Len(call.input) = RATE_BYTES + 1
    /\ result.kind = "Ok"

\* C5: encrypt returns a ciphertext as long as the plaintext and a 32-byte tag;
\* a decrypt that succeeds returns a plaintext as long as the ciphertext
C5_LengthPreservation ==
    /\ EncryptReturned =>
          (Len(result.output) = Len(call.input) /\ Len(result.tag) = TAG_BYTES)
    /\ (DecryptReturned /\ result.kind = "Ok") => Len(result.output) = Len(call.input)

C5_Witness ==
    /\ DecryptReturned /\ result.kind = "Ok"
    /\ Len(call.input) = 1
    /\ Len(result.output) = 1

\* the call that returned is encrypt with the key and nonce 00..1F
KatCall(pt, ad) ==
    /\ EncryptReturned
    /\ call.key = AscBytes(KEY_BYTES)
    /\ call.nonce = AscBytes(NONCE_BYTES)
    /\ call.input = pt
    /\ call.aad = ad

\* C6: KAT count 1: empty plaintext and empty aad give an empty ciphertext and
\* the tag 1E41C390...CC2BFDF2
C6_Kat1 ==
    KatCall(<<>>, <<>>) =>
        (result.output = <<>> /\ result.tag = hex_to_bytes(Kat1TagHex))

C6_Witness == KatCall(<<>>, <<>>) /\ result.kind = "Ok" /\ ncalls = 1

\* C7: KAT count 2: empty plaintext and aad = 00 give an empty ciphertext and
\* the tag 6AF0F211...FF07DCBE
C7_Kat2 ==
    KatCall(<<>>, <<0>>) =>
        (result.output = <<>> /\ result.tag = hex_to_bytes(Kat2TagHex))

C7_Witness == KatCall(<<>>, <<0>>) /\ result.kind = "Ok" /\ ncalls = 1

\* C8: KAT count 34: plaintext = 00 and empty aad give the ciphertext BB and
\* the tag E3CED9AB...9265D791
C8_Kat34 ==
    KatCall(<<0>>, <<>>) =>
        (result.output = <<187>> /\ result.tag = hex_to_bytes(Kat34TagHex))

C8_Witness == KatCall(<<0>>, <<>>) /\ result.kind = "Ok" /\ ncalls = 1

\* C9: KAT count 1057: plaintext = 00..1F and empty aad give the ciphertext
\* BB591819...8F224B69 and the tag 7E6B81DC...DA1ED1BB
C9_Kat1057 ==
    KatCall(AscBytes(RATE_BYTES), <<>>) =>
        (result.output = hex_to_bytes(Kat1057CtHex) /\ result.tag = hex_to_bytes(Kat1057TagHex))

C9_Witness == KatCall(AscBytes(RATE_BYTES), <<>>) /\ result.kind = "Ok" /\ ncalls = 1

\* a fixed-size argument of the call has the wrong length
BadLengths(c) ==
    /\ c.op \in {"encrypt", "decrypt"}
    /\ \/ Len(c.key) # 32
       \/ Len(c.nonce) # 32
       \/ c.op = "decrypt" /\ Len(c.tag) # 32

\* C10: a call whose key or nonce (or, for decrypt, tag) is not 32 bytes long
\* returns BadArg, whatever its tag, and never enters the cipher: no function
\* of the cipher is logged for it and the call is never found running
C10_EagerValidation ==
    BadLengths(call) => (pc = "idle" /\ result.kind = "BadArg" /\ log = <<>>)

\* decrypt with a 31-byte key and a tag that is wrong as well
C10_Witness ==
    /\ Returned
    /\ call.op = "decrypt"
    /\ Len(call.key) = KEY_BYTES - 1
    /\ Len(call.tag) = TAG_BYTES /\ call.tag # prev.result.tag
    /\ result.kind = "BadArg"

\* how often the running call has entered the function (or XORed the constant) e
Occurrences(e) == Cardinality({i \in 1..Len(log) : log[i] = e})

\* C11: a decrypt whose supplied tag differs from the recomputed one returns
\* the error "authentication failed" and nothing else: no output byte, although
\* the plaintext was computed, and the call ran process_ciphertext and
\* verify_tag once only
C11_NoPlaintextOnFailure ==
    (DecryptReturned /\ call.tag # computed_tag) =>
        /\ result = [kind |-> "authentication failed", output |-> <<>>, tag |-> <<>>]
        /\ Occurrences("process_ciphertext") = 1
        /\ Occurrences("verify_tag") = 1

\* a wrong tag with two blocks of ciphertext: 64 bytes were decrypted, none returned
C11_Witness ==
    /\ DecryptReturned
    /\ OneBitFlipped("tag")
    /\ Len(call.input) = 2 * RATE_BYTES
    /\ Len(out) = 2 * RATE_BYTES
    /\ result.kind = "authentication failed"
    /\ result.output = <<>>

\* the functions encrypt and decrypt call, in the order of their bodies
PhasesOf(op) ==
    IF op = "encrypt"
    THEN <<"initialize", "process_assoc_data", "process_plaintext", "finalize", "generate_tag">>
    ELSE <<"initialize", "process_assoc_data", "process_ciphertext", "finalize", "verify_tag">>

PhaseNames ==
    {"initialize", "process_assoc_data", "process_plaintext", "process_ciphertext",
     "finalize", "generate_tag", "verify_tag"}

\* the phases the running call has entered so far, in order
PhaseTrace == SelectSeq(log, LAMBDA e : e \in PhaseNames)

IsPrefix(s, t) == Len(s) <= Len(t) /\ s = SubSeq(t, 1, Len(s))

\* C12: at every moment the phases a call has entered are a prefix of
\* initialize, associated data, data, finalize, tag generation (encrypt) or
\* verification (decrypt); a call that ran the cipher and returned entered each
\* of the five exactly once in this order; and "authentication failed" comes
\* only from a call that decrypted every ciphertext byte and finalized
C12_PhaseOrdering ==
    /\ IsPrefix(PhaseTrace, PhasesOf(call.op))
    /\ (EncryptReturned \/ DecryptReturned) => PhaseTrace = PhasesOf(call.op)
    /\ result.kind = "authentication failed" =>
          /\ PhaseTrace = PhasesOf("decrypt")
          /\ Len(out) = Len(call.input)
          /\ idx = TAG_BYTES

\* a failed decrypt of two blocks with associated data of a block and a byte
C12_Witness ==
    /\ DecryptReturned
    /\ result.kind = "authentication failed"
    /\ Len(call.input) = 2 * RATE_BYTES
    /\ Len(call.aad) = RATE_BYTES + 1
    /\ PhaseTrace = PhasesOf("decrypt")
    /\ Occurrences("rho_whi_dec") = 2

\* the thread with these locals has run its call and returned
ThreadReturned(l) == l.pc = "idle" /\ l.result # NoResult

\* C13: a call that ran interleaved, step by step in any order, with another
\* call returns what the same call returned when it ran alone
C13_Independence ==
    tid # 0 =>
        /\ ThreadReturned(Locals) =>
              (call = alone[tid].call /\ result = alone[tid].result)
        /\ ThreadReturned(parked.locals) =>
              /\ parked.locals.call = alone[parked.tid].call
              /\ parked.locals.result = alone[parked.tid].result

\* thread 2, which started second, has returned from a decrypt while thread 1
\* is still in the data loop of its encrypt
C13_Witness ==
    /\ tid = 2
    /\ ThreadReturned(Locals)
    /\ call.op = "decrypt"
    /\ result.kind = "Ok"
    /\ result = alone[2].result
    /\ Len(call.aad) = RATE_BYTES + 1
    /\ parked.tid = 1
    /\ parked.locals.pc = "data_loop"
    /\ parked.locals.call.op = "encrypt"

\* word j of the key, little-endian
KeyWord(key, j) ==
    FromLeBytes(At(key, 4 * j), At(key, 4 * j + 1), At(key, 4 * j + 2), At(key, 4 * j + 3))

\* the 32 bytes of the capacity: x[4], y[4], x[5], y[5], ... little-endian
CapacityBytes(st) ==
    [k \in 1..TAG_BYTES |->
        ToLeByte(IF ((k - 1) \div 4) % 2 = 0
                 THEN At(st.x, RATE_BRANS + ((k - 1) \div 8))
                 ELSE At(st.y, RATE_BRANS + ((k - 1) \div 8)),
                 (k - 1) % 4)]

\* C14 as stated: when the tag is generated or verified, the last things the
\* call did were finalize and, after it, a BIG permutation
C14_FinalizeThenBig ==
    pc \in {"generate_tag", "verify_tag"} =>
        /\ Len(log) >= 2
        /\ log[Len(log) - 1] = "finalize"
        /\ log[Len(log)] = "BIG"

\* C14, amended: finalize XORs the key words into the four capacity branches,
\* leaves the rate alone and runs no permutation; the tag is generated or
\* verified next, from the capacity of the state as finalize left it
C14_FinalizeNoPermutation ==
    [][ /\ pc = "finalize" =>
            /\ \A i \in 0..(CAP_BRANS - 1) :
                  /\ At(state'.x, RATE_BRANS + i) =
                        Xor[At(state.x, RATE_BRANS + i), KeyWord(call.key, 2 * i)]
                  /\ At(state'.y, RATE_BRANS + i) =
                        Xor[At(state.y, RATE_BRANS + i), KeyWord(call.key, 2 * i + 1)]
                  /\ At(state'.x, i) = At(state.x, i)
                  /\ At(state'.y, i) = At(state.y, i)
            /\ pc' \in {"generate_tag", "verify_tag"}
            /\ log' = Append(log, "finalize")
            /\ UNCHANGED <<flat, step, steps>>
        /\ pc = "generate_tag" => (state' = state /\ result'.tag = CapacityBytes(state))
        /\ pc = "verify_tag" => (state' = state /\ computed_tag' = CapacityBytes(state)) ]_vars

\* an encrypt of a block and a byte has returned: finalize, then at once the tag
C14_Witness ==
    /\ EncryptReturned
    /\ Len(call.input) = RATE_BYTES + 1
    /\ SubSeq(log, Len(log) - 2, Len(log)) = <<"BIG", "finalize", "generate_tag">>
    /\ result.tag = CapacityBytes(state)

\* C15 as stated: a call with empty data that has come to finalize has XORed
\* M2 into y[7], applied its rho function to the empty block and permuted
\* with BIG steps in the data phase, with zero-length output
C15_EmptyDataStillProcessed ==
    (pc = "finalize" /\ Len(call.input) = 0) =>
        /\ out = <<>>
        /\ SubSeq(log, Len(log) - 2, Len(log)) \in
              {<<"M2", "rho_whi_enc", "BIG">>, <<"M2", "rho_whi_dec", "BIG">>}

\* C15, amended: with empty data the data phase is skipped, like the
\* associated-data phase: process_plaintext and process_ciphertext return a
\* zero-length output at once and leave the 16 state words as they were; the
\* call XORs neither M2 nor M3, applies no rho_whi_enc or rho_whi_dec and
\* finalizes the state that the phase was entered with
C15_EmptyDataSkipped ==
    [][ /\ (pc = "process_data" /\ Len(call.input) = 0) =>
            /\ state' = state
            /\ out' = <<>>
            /\ pc' = "finalize"
            /\ log' = Append(log, IF call.op = "encrypt" THEN "process_plaintext"
                                  ELSE "process_ciphertext")
            /\ UNCHANGED <<flat, step, steps>>
        /\ (pc = "finalize" /\ Len(call.input) = 0) =>
            /\ log[Len(log)] \in {"process_plaintext", "process_ciphertext"}
            /\ Occurrences("M2") + Occurrences("M3") = 0
            /\ Occurrences("rho_whi_enc") + Occurrences("rho_whi_dec") = 0 ]_vars

\* a decrypt of no ciphertext, with associated data, that succeeded
C15_Witness ==
    /\ DecryptReturned
    /\ Len(call.input) = 0
    /\ Len(call.aad) = RATE_BYTES + 1
    /\ result.kind = "Ok"
    /\ result.output = <<>>
    /\ Occurrences("M2") = 0
    /\ Occurrences("rho_whi_dec") = 0
    /\ Occurrences("BIG") = 2

\* C16: when process_assoc_data has returned for empty associated data, in
\* encrypt and in decrypt, the 16 state words are those initialize's
\* permutation produced, and the call has XORed no constant, applied no
\* rho_whi_aut and run no permutation but that of initialize
C16_EmptyAadSkipped ==
    (pc = "process_data" /\ Len(call.aad) = 0) =>
        /\ log = <<"initialize", "BIG", "process_assoc_data">>
        /\ state = flat_to_state(flat)
        /\ step = SPARKLE_STEPS_BIG
        /\ Occurrences("A0") + Occurrences("A1") + Occurrences("rho_whi_aut") = 0

\* a decrypt without associated data is about to process a block and a byte
C16_Witness ==
    /\ pc = "process_data"
    /\ call.op = "decrypt"
    /\ Len(call.aad) = 0
    /\ Len(call.input) = RATE_BYTES + 1
    /\ log = <<"initialize", "BIG", "process_assoc_data">>

\* ceil(n / 32): the blocks of an input of n bytes
Blocks(n) == (n + RATE_BYTES - 1) \div RATE_BYTES

\* what a phase does with n bytes: nothing for none, else Blocks(n) - 1 times
\* (rho, SLIM) and then once (rho, BIG)
PhaseSteps(n, rho) ==
    IF n = 0 THEN <<>>
    ELSE [i \in 1..(2 * Blocks(n)) |->
             IF i % 2 = 1 THEN rho ELSE IF i = 2 * Blocks(n) THEN "BIG" ELSE "SLIM"]

\* the rho function of the running call's data phase
DataRho == IF call.op = "encrypt" THEN "rho_whi_enc" ELSE "rho_whi_dec"

\* the rho functions and permutations of the running call, in order
StepTrace ==
    SelectSeq(log, LAMBDA e : e \in {"rho_whi_aut", "rho_whi_enc", "rho_whi_dec", "SLIM", "BIG"})

\* C17: at the head of a block loop the offset is a multiple of 32 below the
\* length, with one rho (and as many output bytes) per 32 bytes behind it, so
\* that a block is 32 bytes in the loop and 1 to 32 bytes after it; a call
\* that returned has done, after initialize's BIG and for the associated data
\* and then the data of n > 0 bytes, ceil(n/32) - 1 times rho and SLIM and
\* once rho and BIG, the last block starting at 32 * (ceil(n/32) - 1)
C17_BlockChunking ==
    /\ pc = "aad_loop" =>
          /\ offset % RATE_BYTES = 0
          /\ 0 <= offset /\ offset < Len(call.aad)
          /\ StepTrace = <<"BIG">> \o SubSeq(PhaseSteps(offset + 1, "rho_whi_aut"), 1,
                                             2 * (offset \div RATE_BYTES))
    /\ pc = "data_loop" =>
          /\ offset % RATE_BYTES = 0
          /\ 0 <= offset /\ offset < Len(call.input)
          /\ Len(out) = offset
          /\ StepTrace = <<"BIG">> \o PhaseSteps(Len(call.aad), "rho_whi_aut")
                            \o SubSeq(PhaseSteps(offset + 1, DataRho), 1,
                                      2 * (offset \div RATE_BYTES))
    /\ (EncryptReturned \/ DecryptReturned) =>
          /\ StepTrace = <<"BIG">> \o PhaseSteps(Len(call.aad), "rho_whi_aut")
                            \o PhaseSteps(Len(call.input), DataRho)
          /\ Len(out) = Len(call.input)
          /\ Len(call.input) > 0 =>
                /\ offset = RATE_BYTES * (Blocks(Len(call.input)) - 1)
                /\ Len(call.input) - offset \in 1..RATE_BYTES

\* an encrypt of exactly two blocks, with associated data of a block and a byte
C17_Witness ==
    /\ EncryptReturned
    /\ Len(call.input) = 2 * RATE_BYTES
    /\ Len(call.aad) = RATE_BYTES + 1
    /\ offset = RATE_BYTES
    /\ StepTrace = <<"BIG", "rho_whi_aut", "SLIM", "rho_whi_aut", "BIG",
                     "rho_whi_enc", "SLIM", "rho_whi_enc", "BIG">>

\* the constants and rho functions of the running call, in order
MarkTrace ==
    SelectSeq(log, LAMBDA e : e \in {"A0", "A1", "M2", "M3",
                                     "rho_whi_aut", "rho_whi_enc", "rho_whi_dec"})

\* what a phase does with n bytes: a rho per block, and before the last rho
\* the constant of a partial or of a full last block
PhaseMarks(n, rho, partial, full) ==
    IF n = 0 THEN <<>>
    ELSE [i \in 1..(Blocks(n) + 1) |->
             IF i # Blocks(n) THEN rho
             ELSE IF n % RATE_BYTES = 0 THEN full ELSE partial]

\* the value XORed into y[7] before the block at offset off of n bytes:
\* 0 in the loop, else 0x10000000, 0x11000000 (associated data) or
\* 0x12000000, 0x13000000 (data), by the last block's length
MarkValue(n, off, isData) ==
    IF n - off > RATE_BYTES THEN Zero32
    ELSE IF ~isData
         THEN (IF n - off < RATE_BYTES THEN AsU32(268435456) ELSE AsU32(285212672))
         ELSE (IF n - off < RATE_BYTES THEN AsU32(301989888) ELSE AsU32(318767104))

\* C18: a step of a block loop changes y[7] by the constant of a last block
\* (A0 or A1, M2 or M3, by whether fewer than 32 bytes or 32 remain) and not
\* at all for a block of the loop, and changes no other capacity word; a call
\* has in each non-empty phase one constant, right before the phase's last
\* rho, chosen by the length alone, in encrypt as in decrypt
C18_DomainSeparation ==
    [][ /\ pc \in {"aad_loop", "data_loop"} =>
            /\ At(state'.y, 7) =
                  Xor[At(state.y, 7),
                      MarkValue(IF pc = "aad_loop" THEN Len(call.aad) ELSE Len(call.input),
                                offset, pc = "data_loop")]
            /\ \A i \in RATE_BRANS..7 : At(state'.x, i) = At(state.x, i)
            /\ \A i \in RATE_BRANS..6 : At(state'.y, i) = At(state.y, i)
        /\ (pc' = "finalize" /\ pc = "sparkle") =>
              MarkTrace' = PhaseMarks(Len(call.aad), "rho_whi_aut", "A0", "A1")
                              \o PhaseMarks(Len(call.input), DataRho, "M2", "M3")
        /\ (pc' = "idle" /\ log' # <<>>) =>
              MarkTrace' = PhaseMarks(Len(call.aad), "rho_whi_aut", "A0", "A1")
                              \o PhaseMarks(Len(call.input), DataRho, "M2", "M3") ]_vars

\* a decrypt of two full blocks with one full block of associated data: A1
\* before the only rho_whi_aut, M3 before the second rho_whi_dec
C18_Witness ==
    /\ DecryptReturned
    /\ result.kind = "Ok"
    /\ Len(call.aad) = RATE_BYTES
    /\ Len(call.input) = 2 * RATE_BYTES
    /\ MarkTrace = <<"A1", "rho_whi_aut", "rho_whi_dec", "M3", "rho_whi_dec">>

\* byte k of a block zero-padded to 32 bytes, 0x80 after a partial block
PaddedByte(block, k) ==
    IF k < Len(block) THEN At(block, k)
    ELSE IF k = Len(block) /\ Len(block) < RATE_BYTES THEN 128
    ELSE 0

\* word j of the padded block, little-endian
PaddedWord(block, j) ==
    FromLeBytes(PaddedByte(block, 4 * j), PaddedByte(block, 4 * j + 1),
                PaddedByte(block, 4 * j + 2), PaddedByte(block, 4 * j + 3))

Xor3(a, b, c) == Xor[Xor[a, b], c]

Xor4(a, b, c, d) == Xor[Xor[a, b], Xor[c, d]]

\* the rate of t is what C19 says of a state s and a block
RhoRate(t, s, block) ==
    \A i \in {0, 1} :
        /\ At(t.x, i) = Xor3(At(s.x, i + 2), PaddedWord(block, 2 * i), At(s.x, 4 + i))
        /\ At(t.x, i + 2) =
              Xor4(At(s.x, i + 2), At(s.x, i), PaddedWord(block, 2 * (i + 2)), At(s.x, 6 + i))
        /\ At(t.y, i) = Xor3(At(s.y, i + 2), PaddedWord(block, 2 * i + 1), At(s.y, 4 + i))
        /\ At(t.y, i + 2) =
              Xor4(At(s.y, i + 2), At(s.y, i), PaddedWord(block, 2 * (i + 2) + 1),
                   At(s.y, 6 + i))

\* C19: rho_whi_aut on a state s and a block of 0 to 32 bytes, padded to the
\* words P, leaves x[i] = s.x[i+2] ^ P[2i] ^ s.x[4+i] and
\* x[i+2] = s.x[i+2] ^ s.x[i] ^ P[2(i+2)] ^ s.x[6+i] for i = 0, 1, the same
\* for y with the odd words of P, and outputs nothing
C19_RhoWhiAut ==
    [][ log' = <<"rho_whi_aut">> =>
            (RhoRate(state', state, call.input) /\ out' = <<>>) ]_vars

\* rho_whi_aut has run on a block of 31 bytes: the marker is the last byte
C19_Witness ==
    /\ pc = "rho_done"
    /\ log = <<"rho_whi_aut">>
    /\ Len(call.input) = RATE_BYTES - 1
    /\ At(call.input, 0) = 161

\* byte k of the rate of s: x[0], y[0], x[1], y[1], ... little-endian
RateByte(s, k) ==
    ToLeByte(IF (k \div 4) % 2 = 0 THEN At(s.x, k \div 8) ELSE At(s.y, k \div 8), k % 4)

\* C20: rho_whi_enc on a state s and a block p of L <= 32 bytes outputs L
\* bytes, byte k being p[k] XOR byte k of the rate of s as it is before the
\* call, and leaves the 16 state words that rho_whi_aut leaves on s and p
C20_RhoWhiEnc ==
    [][ log' = <<"rho_whi_enc">> =>
            /\ Len(out') = Len(call.input)
            /\ \A k \in 0..(Len(call.input) - 1) :
                  At(out', k) = Xor8(At(call.input, k), RateByte(state, k))
            /\ state' = rho_whi_aut(state, call.input) ]_vars

\* rho_whi_enc has run on a block of 31 bytes
C20_Witness ==
    /\ pc = "rho_done"
    /\ log = <<"rho_whi_enc">>
    /\ Len(call.input) = RATE_BYTES - 1
    /\ Len(out) = RATE_BYTES - 1
    /\ At(call.input, 0) = 7

\* C21: with c the output of rho_whi_enc on a state s and a block p of 1 to
\* 32 bytes, rho_whi_dec on s and c outputs p and leaves the 16 state words
\* that rho_whi_enc left, for a partial block and for a full one
C21_RhoDecInvertsEnc ==
    [][ (log' = <<"rho_whi_enc", "rho_whi_dec">> /\ Len(call.input) >= 1) =>
            /\ out' = call.input
            /\ state' = rho_whi_enc(state, ZeroBytes(Len(call.input)), call.input).state ]_vars

\* rho_whi_dec has recovered a block of 31 bytes from its ciphertext
C21_Witness ==
    /\ pc = "rho_done"
    /\ log = <<"rho_whi_enc", "rho_whi_dec">>
    /\ Len(call.input) = RATE_BYTES - 1
    /\ out = call.input
    /\ At(call.input, 0) = 161

\* C22: initialize loads x[i], y[i] with the little-endian words 2i, 2i+1 of
\* the nonce and x[4+i], y[4+i] with those of the key (i in 0..3) and hands
\* this state to a permutation of BIG steps that starts at step 0; when
\* initialize has returned the call has run that one permutation, all its 12
\* steps, and processed no input
C22_Initialization ==
    [][ /\ pc = "initialize" =>
            /\ \A i \in 0..3 :
                  /\ At(state'.x, i) = KeyWord(call.nonce, 2 * i)
                  /\ At(state'.y, i) = KeyWord(call.nonce, 2 * i + 1)
                  /\ At(state'.x, RATE_BRANS + i) = KeyWord(call.key, 2 * i)
                  /\ At(state'.y, RATE_BRANS + i) = KeyWord(call.key, 2 * i + 1)
            /\ \A i \in 0..7 :
                  At(flat', 2 * i) = At(state'.x, i) /\ At(flat', 2 * i + 1) = At(state'.y, i)
            /\ pc' = "sparkle" /\ step' = 0 /\ steps' = 12
        /\ pc' = "process_assoc_data" =>
            /\ log' = <<"initialize", "BIG">>
            /\ step' = 12
            /\ offset' = offset /\ out' = out ]_vars

\* initialize has returned in an encrypt with the roundtrip test's key and nonce
C22_Witness ==
    /\ pc = "process_assoc_data"
    /\ call.op = "encrypt"
    /\ call.key = TestKey /\ call.nonce = TestNonce
    /\ log = <<"initialize", "BIG">>
    /\ step = SPARKLE_STEPS_BIG
    /\ state = flat_to_state(flat)

\* C23: the tag encrypt returns is the 32 bytes x[4], y[4], x[5], y[5], x[6],
\* y[6], x[7], y[7] of the finalized state, each little-endian, and nothing of
\* the rate; verify_tag recomputes the same bytes and accepts the tag that
\* generate_tag gives for the state it is called with
C23_TagGeneration ==
    /\ EncryptReturned =>
          (Len(result.tag) = TAG_BYTES /\ result.tag = CapacityBytes(state))
    /\ DecryptReturned =>
          /\ computed_tag = CapacityBytes(state)
          /\ call.tag = generate_tag(state) => (diff = 0 /\ result.kind = "Ok")

\* a decrypt of a block and a byte was given the tag of its finalized state
C23_Witness ==
    /\ DecryptReturned
    /\ Len(call.input) = RATE_BYTES + 1
    /\ call.tag = generate_tag(state)
    /\ call.tag = prev.result.tag
    /\ result.kind = "Ok"

\* a 32-bit word as its bits, least significant first
Bit == {0, 1}

ToBits(w) ==
    Collect([k \in 1..32 |-> IF k <= 16 THEN (w[1] \div 2 ^ (k - 1)) % 2
                                         ELSE (w[2] \div 2 ^ (k - 17)) % 2])

BitsValue[b \in Seq(Bit)] == IF b = <<>> THEN 0 ELSE b[1] + 2 * BitsValue[Tail(b)]

FromBits(b) == <<BitsValue[SubSeq(b, 1, 16)], BitsValue[SubSeq(b, 17, 32)]>>

\* rotr(b, r): bit k of the result is bit (k + r) mod 32 of b
RotrBits(b, r) == Collect([k \in 1..32 |-> b[((k - 1 + r) % 32) + 1]])

XorBits(a, b) == Collect([k \in 1..32 |-> (a[k] + b[k]) % 2])

NotBits(a) == Collect([k \in 1..32 |-> 1 - a[k]])

\* a + b + c by ripple carry; the carry out of the last bit is dropped (mod 2^32)
SumBits[a \in Seq(Bit), b \in Seq(Bit), c \in Bit] ==
    IF a = <<>> THEN <<>>
    ELSE <<(a[1] + b[1] + c) % 2>> \o SumBits[Tail(a), Tail(b), (a[1] + b[1] + c) \div 2]

\* a - b mod 2^32
SubBits(a, b) == SumBits[a, NotBits(b), 1]

\* (r1, r2) of the four rounds
AlzetteRotations == << <<31, 24>>, <<17, 17>>, <<0, 31>>, <<24, 16>> >>

\* x = (x + rotr(y, r1)) mod 2^32; y = y ^ rotr(x, r2); x = x ^ c
ArxRound(s, c, r) ==
    LET x1 == SumBits[s[1], RotrBits(s[2], r[1]), 0]
        y1 == XorBits(s[2], RotrBits(x1, r[2]))
    IN  <<XorBits(x1, c), y1>>

\* the first k rounds
ArxRounds[s \in Seq(Seq(Bit)), c \in Seq(Bit), k \in 0..4] ==
    IF k = 0 THEN s ELSE ArxRound(ArxRounds[s, c, k - 1], c, AlzetteRotations[k])

\* the round undone: x = x ^ c; y = y ^ rotr(x, r2); x = (x - rotr(y, r1)) mod 2^32
ArxUnround(s, c, r) ==
    LET x1 == XorBits(s[1], c)
        y0 == XorBits(s[2], RotrBits(x1, r[2]))
    IN  <<SubBits(x1, RotrBits(y0, r[1])), y0>>

\* rounds k, k - 1, ..., 1 undone in that order
ArxUnrounds[s \in Seq(Seq(Bit)), c \in Seq(Bit), k \in 0..4] ==
    IF k = 0 THEN s ELSE ArxUnrounds[ArxUnround(s, c, AlzetteRotations[k]), c, k - 1]

\* C24: alzette(x, y, c) is four rounds of x = (x + rotr(y, r1)) mod 2^32,
\* y = y ^ rotr(x, r2), x = x ^ c with (r1, r2) = (31,24), (17,17), (0,31),
\* (24,16) in that order, the addition wrapping; for a fixed c the map is
\* invertible: undoing the four rounds on the result gives (x, y) back.
C24_Alzette ==
    [][ (pc = "alzette" /\ pc' = "alzette_done") =>
            LET x == ToBits(At(flat, 0))
                y == ToBits(At(flat, 1))
                c == ToBits(At(flat, 2))
                r == ArxRounds[<<x, y>>, c, 4]
            IN  /\ At(flat', 0) = FromBits(r[1])
                /\ At(flat', 1) = FromBits(r[2])
                /\ At(flat', 2) = At(flat, 2)
                /\ ArxUnrounds[<<ToBits(At(flat', 0)), ToBits(At(flat', 1))>>, c, 4] = <<x, y>> ]_vars

\* alzette has returned for x = 0xFFFFFFFF, y = 0x80000000 (the first addition
\* wraps to 0) and c = RCON[7]
C24_Witness ==
    /\ pc = "alzette_done"
    /\ At(flat, 2) = At(RCON, 7)
    /\ ArxUnrounds[<<ToBits(At(flat, 0)), ToBits(At(flat, 1))>>, ToBits(At(flat, 2)), 4]
         = <<ToBits(U32(65535, 65535)), ToBits(U32(32768, 0))>>
    /\ SumBits[ToBits(U32(65535, 65535)), RotrBits(ToBits(U32(32768, 0)), 31), 0] = ToBits(Zero32)

\* the eight distinct round constants
RCON8 == SubSeq(RCON, 1, 8)

\* the state after the constants of step s are added: flat word 1 (y[0]) gets
\* RCON[s mod 8], flat word 3 (y[1]) gets s
WithStepConstants(st, s) ==
    Collect([k \in 1..Len(st) |->
        IF k - 1 = 1 THEN Xor[st[k], At(RCON8, s % 8)]
        ELSE IF k - 1 = 3 THEN Xor[st[k], AsU32(s)]
        ELSE st[k]])

\* Alzette on every branch i = 0 .. Len / 2 - 1 with constant RCON[i mod 8]
WithAlzette(st) ==
    Collect([k \in 1..Len(st) |->
        LET i == (k - 1) \div 2
        IN  alzette(At(st, 2 * i), At(st, 2 * i + 1), At(RCON8, i % 8))[((k - 1) % 2) + 1]])

\* C25: a call of the permutation with n steps applies steps 0 .. n-1 in
\* increasing order, the counter restarting at 0 on every call; step s XORs
\* RCON[s mod 8] into flat word 1 and s into flat word 3, then applies Alzette
\* to every branch i with RCON[i mod 8], then the linear layer once; no
\* round-constant index exceeds 7, and the state keeps its 8, 12 or 16 words.
C25_StepFunction ==
    [][ /\ (pc = "sparkle_idle" /\ pc' = "sparkle_generic") => (step' = 0 /\ flat' = flat)
        /\ (pc = "sparkle_generic" /\ pc' = "sparkle_generic") =>
               /\ step < steps
               /\ step' = step + 1
               /\ flat' = linear_layer(WithAlzette(WithStepConstants(flat, step)))
               /\ Len(flat') = Len(flat)
        /\ (pc = "sparkle_generic" /\ pc' = "sparkle_idle") =>
               /\ log = [k \in 1..steps |-> k - 1]
               /\ flat' = flat
               /\ Len(flat) \in {8, 12, 16} ]_vars

\* the second call on an array of 12 words, one of 17 steps, has returned: its
\* steps were 0 .. 16
C25_Witness ==
    /\ pc = "sparkle_idle"
    /\ ncalls = 2
    /\ steps = 17
    /\ Len(flat) = 12
    /\ log = [k \in 1..17 |-> k - 1]

\* ell(t) = rotr(t ^ (t << 16), 16), on bits
EllOf(t) ==
    LET bits == ToBits(t)
        shl  == Collect([k \in 1..32 |-> IF k <= 16 THEN 0 ELSE bits[k - 16]])
    IN  FromBits(RotrBits(XorBits(bits, shl), 16))

\* the XOR of the words of a
XorAll[a \in Words] == IF a = <<>> THEN Zero32 ELSE Xor[a[1], XorAll[Tail(a)]]

\* x[i] = st[2 i] (off = 0), y[i] = st[2 i + 1] (off = 1), i = 0 .. nb - 1
Lane(st, off) == Collect([k \in 1..(Len(st) \div 2) |-> At(st, 2 * (k - 1) + off)])

\* a[i + b] ^= t ^ a[i] for i in [0, b)
FeistelOf(a, t, b) ==
    Collect([k \in 1..Len(a) |-> IF k - 1 < b THEN a[k] ELSE Xor[a[k], Xor[t, At(a, k - 1 - b)]]])

\* new lower half at j = old upper half at b + ((j + 1) mod b); new upper half
\* at b + j = old lower half at j
RotatedHalves(a, b) ==
    Collect([k \in 1..Len(a) |-> IF k - 1 < b THEN At(a, b + ((k - 1 + 1) % b)) ELSE At(a, k - 1 - b)])

\* the layer as the wiring describes it, tx and ty taken from the input
LinearLayerWiring(st) ==
    LET b  == (Len(st) \div 2) \div 2
        x  == Lane(st, 0)
        y  == Lane(st, 1)
        tx == EllOf(XorAll[SubSeq(x, 1, b)])
        ty == EllOf(XorAll[SubSeq(y, 1, b)])
        nx == RotatedHalves(FeistelOf(x, ty, b), b)
        ny == RotatedHalves(FeistelOf(y, tx, b), b)
    IN  Collect([k \in 1..Len(st) |-> IF (k - 1) % 2 = 0 THEN At(nx, (k - 1) \div 2)
                                                         ELSE At(ny, (k - 1) \div 2)])

\* the halves put back: old lower half at j = new upper half at b + j; old upper
\* half at b + m = new lower half at (m - 1) mod b
UnrotatedHalves(a, b) ==
    Collect([k \in 1..Len(a) |-> IF k - 1 < b THEN At(a, b + (k - 1)) ELSE At(a, (k - 1 - b + b - 1) % b)])

\* the layer undone: the lower halves give tx and ty, which come off the upper halves
LinearLayerInverse(st) ==
    LET b  == (Len(st) \div 2) \div 2
        fx == UnrotatedHalves(Lane(st, 0), b)
        fy == UnrotatedHalves(Lane(st, 1), b)
        tx == EllOf(XorAll[SubSeq(fx, 1, b)])
        ty == EllOf(XorAll[SubSeq(fy, 1, b)])
        x  == FeistelOf(fx, ty, b)
        y  == FeistelOf(fy, tx, b)
    IN  Collect([k \in 1..Len(st) |-> IF (k - 1) % 2 = 0 THEN At(x, (k - 1) \div 2)
                                                         ELSE At(y, (k - 1) \div 2)])

\* C26: for 4, 6 and 8 branches linear_layer is the wiring y[i+b] ^= tx ^ y[i],
\* x[i+b] ^= ty ^ x[i] with tx = ell(XOR x[0..b)), ty = ell(XOR y[0..b)) of the
\* input, followed in x and in y by: new lower half at j = old upper half at
\* b + ((j+1) mod b), new upper half at b + j = old lower half at j; it is a
\* bijection: the inverse wiring gives the input back.
C26_LinearLayer ==
    [][ /\ (pc = "linear_layer" /\ pc' = "linear_layer_done") =>
               /\ Len(flat) \in {8, 12, 16}
               /\ flat' = LinearLayerWiring(flat)
               /\ LinearLayerInverse(flat') = flat
        \* the layer that ends every step of a permutation
        /\ (pc = "sparkle_generic" /\ step' = step + 1) =>
               /\ flat' = LinearLayerWiring(AlzetteLayer[WithStepConstants(flat, step), Len(flat) \div 2])
               /\ LinearLayerInverse(flat') = AlzetteLayer[WithStepConstants(flat, step), Len(flat) \div 2] ]_vars

\* linear_layer has returned on the 6 branches 1, 2, ..., 12
C26_Witness ==
    /\ pc = "linear_layer_done"
    /\ Len(flat) = 12
    /\ LinearLayerInverse(flat) = [i \in 1..12 |-> AsU32(i)]
    /\ flat # [i \in 1..12 |-> AsU32(i)]

\* C27: in the flat-array construction of schwaemm.rs, decrypt of what encrypt
\* returned gives Ok(plaintext) for every key, nonce, plaintext and associated
\* data, plaintexts whose length is not a multiple of 32 bytes included.
C27_FlatRoundTrip ==
    (pc = "idle" /\ ncalls = 2 /\ call = DecryptArgsOf(prev)) =>
        /\ result.kind = "Ok"
        /\ result.output = prev.call.input

\* the number of leading bytes on which a and b agree
CommonPrefix[a \in Bytes, b \in Bytes] ==
    IF a = <<>> \/ b = <<>> \/ a[1] # b[1] THEN 0 ELSE 1 + CommonPrefix[Tail(a), Tail(b)]

\* C28: for a fixed key, nonce and aad, two plaintexts that agree on their
\* first n bytes have ciphertexts that agree on their first n bytes, whatever
\* the two lengths are and whichever kind of block byte n-1 falls in (so the
\* final-block constant added to y[7] leaves that block's ciphertext alone).
C28_PrefixPreservation ==
    (EncryptReturned /\ ncalls = 2) =>
        /\ call.key = prev.call.key /\ call.nonce = prev.call.nonce /\ call.aad = prev.call.aad
        /\ \A n \in 0..CommonPrefix[call.input, prev.call.input] :
              SubSeq(result.output, 1, n) = SubSeq(prev.result.output, 1, n)

\* a full final block of the first call is an intermediate block of the second,
\* and the two plaintexts differ after it
C28_Witness ==
    /\ EncryptReturned
    /\ ncalls = 2
    /\ Len(prev.call.input) = RATE_BYTES
    /\ Len(call.input) = RATE_BYTES + 1
    /\ At(call.input, RATE_BYTES) = 255 - RATE_BYTES
    /\ CommonPrefix[call.input, prev.call.input] = RATE_BYTES
    /\ SubSeq(result.output, 1, RATE_BYTES) = prev.result.output
    /\ Len(call.aad) = 1

\* the 8 capacity words x[4..8), y[4..8)
Capacity(st) == <<SubSeq(st.x, RATE_BRANS + 1, 2 * RATE_BRANS), SubSeq(st.y, RATE_BRANS + 1, 2 * RATE_BRANS)>>

\* the state with its rate words kept and its capacity words zeroed
RateOnly(st) ==
    [x |-> [i \in 1..(2 * RATE_BRANS) |-> IF i <= RATE_BRANS THEN st.x[i] ELSE Zero32],
     y |-> [i \in 1..(2 * RATE_BRANS) |-> IF i <= RATE_BRANS THEN st.y[i] ELSE Zero32]]

\* the block a step of the data loop takes: 32 bytes, or what remains
DataChunk == Slice(call.input, offset, IF Len(call.input) - offset > RATE_BYTES
                                       THEN offset + RATE_BYTES ELSE Len(call.input))

\* C29: rho_whi_aut, rho_whi_enc and rho_whi_dec leave the 8 capacity words
\* unchanged for every state and block length 0..32, and their output bytes are
\* a function of the block and the rate words only (the same bytes come out of
\* the state with its capacity zeroed); in a whole call the capacity changes
\* only in the permutation, by a domain constant XORed into y[7], and by the
\* key XOR of finalize.
C29_CapacityFrame ==
    [][ /\ pc = "rho" =>
            /\ Capacity(state') = Capacity(state)
            /\ log' = <<"rho_whi_enc">> =>
                   out' = rho_whi_enc(RateOnly(state), ZeroBytes(Len(call.input)), call.input).output
            /\ log' = <<"rho_whi_dec">> =>
                   out' = rho_whi_dec(RateOnly(state), ZeroBytes(Len(call.input)), call.input).output
        /\ pc = "data_loop" =>
               out' = out \o (IF call.op = "encrypt"
                              THEN rho_whi_enc(RateOnly(state), ZeroBytes(Len(DataChunk)), DataChunk)
                              ELSE rho_whi_dec(RateOnly(state), ZeroBytes(Len(DataChunk)), DataChunk)).output
        /\ (pc \notin {"rho", "initialize"} /\ Capacity(state') # Capacity(state)) =>
               \/ pc = "sparkle" /\ pc' # "sparkle" /\ state' = flat_to_state(flat)
               \/ /\ pc \in {"aad_loop", "data_loop"}
                  /\ \E c \in {CONST_A0, CONST_A1, CONST_M2, CONST_M3} :
                        Capacity(state') = Capacity(XorConst(state, c))
               \/ /\ pc = "finalize"
                  /\ \A k \in 1..TAG_BYTES :
                        CapacityBytes(state')[k] = Xor8(CapacityBytes(state)[k], call.key[k]) ]_vars

\* rho_whi_aut has run on an empty block, on the state initialize loads from the
\* roundtrip test's key and nonce: the rate has changed, the capacity is the key
C29_Witness ==
    /\ pc = "rho_done"
    /\ log = <<"rho_whi_aut">>
    /\ Len(call.input) = 0
    /\ Capacity(state) = Capacity(LoadState(TestKey, TestNonce))
    /\ Capacity(state) # Capacity(RateOnly(state))
    /\ state # LoadState(TestKey, TestNonce)

=============================================================================
